---- MODULE Spec2Model ----
(***************************************************************************)
(* Model of the finance bot.  Spec and SpecRepeat: the natural-language    *)
(* transaction parser (src/utils/helpers.py), parse_amount,                *)
(* parse_date_from_text, parse_transaction_text and                        *)
(* detect_transaction_category with the taxonomy of src/config.py, called  *)
(* by a client while the wall clock that datetime.now() reads moves on.    *)
(* SpecBot: the handlers of src/bot/handlers.py behind the dispatch that   *)
(* src/main.py registers, fed with the updates of one user.  SpecSheet:    *)
(* add_transaction and get_user_balance of                                 *)
(* src/services/google_sheets.py on the spreadsheet of one user.           *)
(*                                                                         *)
(* Texts are TLA+ strings.  The regular expressions of the source are      *)
(* written as syntax trees and run by a backtracking matcher with the      *)
(* priority rules of Python's re module (leftmost start, ordered           *)
(* alternation, greedy repetition).  A float is the exact decimal          *)
(* <<m, e>> = m * 10^e with m free of trailing zeros; None is <<>>.        *)
(* A datetime is <<year, month, day>>: the time of day never decides a     *)
(* branch of the modelled code.                                            *)
(***************************************************************************)
EXTENDS Integers, Sequences, FiniteSets, TLC

\* clock: the day datetime.now() returns; pc, call: whether a call has
\* returned, and which; ret_amount, ret_date, ret_transaction,
\* ret_category: the value the call of parse_amount, parse_date_from_text,
\* parse_transaction_text, detect_transaction_category returned;
\* remaining_text: the local variable text of parse_transaction_text when
\* it returned; taxonomy: the value of Config.DEFAULT_CATEGORIES; prev: an
\* earlier call the client remembers, with what it returned.
VARIABLES clock, pc, call, ret_amount, ret_date, ret_transaction,
          ret_category, remaining_text, taxonomy, prev

\* The bot (src/bot/handlers.py) in the chat of one user.  state: the
\* state the ConversationHandler keeps for the user; user_data:
\* context.user_data, the draft; update: the update handled last; saves:
\* the calls of sheets_service.add_transaction_with_date made while
\* handling it; flows: how often the conversation was entered;
\* date_keyboards, confirm_keyboards: the messages of the chat that show
\* the date and the confirmation keyboard.
VARIABLES state, user_data, update, saves, flows, date_keyboards,
          confirm_keyboards

\* The spreadsheet of one user (src/services/google_sheets.py).  rows: the
\* data rows of the Transactions sheet, summary: those of Monthly_Summary,
\* each cell as the text get_all_values gives; total: the income minus
\* the expenses of the add_transaction calls that succeeded; ret_balance:
\* what get_user_balance returned to the client since the last of them.
VARIABLES rows, summary, total, ret_balance

rets ==
    <<ret_amount, ret_date, ret_transaction, ret_category, remaining_text>>

parserVars == <<pc, call, rets, taxonomy, prev>>

botVars ==
    <<state, user_data, update, saves, flows, date_keyboards,
      confirm_keyboards>>

sheetVars == <<rows, summary, total, ret_balance>>

vars ==
    <<clock, pc, call, ret_amount, ret_date, ret_transaction, ret_category,
      remaining_text, taxonomy, prev, botVars, sheetVars>>

\* ------------------------------------------------------------------
\* Characters and strings
\* ------------------------------------------------------------------

None == <<>>

Ch(s, i) == SubSeq(s, i, i)

DigitStr == "0123456789"
LowerStr == "abcdefghijklmnopqrstuvwxyz"
UpperStr == "ABCDEFGHIJKLMNOPQRSTUVWXYZ"

CharsOf(s) == {Ch(s, i) : i \in 1..Len(s)}

Digit == CharsOf(DigitStr)
LowerAlpha == CharsOf(LowerStr)
UpperAlpha == CharsOf(UpperStr)
WordChar == Digit \cup LowerAlpha \cup UpperAlpha \cup {"_"}
Space == {" ", "\t", "\n"}

LowerCh(c) ==
    IF c \in UpperAlpha
    THEN Ch(LowerStr, CHOOSE i \in 1..26 : Ch(UpperStr, i) = c)
    ELSE c

UpperCh(c) ==
    IF c \in LowerAlpha
    THEN Ch(UpperStr, CHOOSE i \in 1..26 : Ch(LowerStr, i) = c)
    ELSE c

RECURSIVE Lower(_)
Lower(s) ==
    IF s = "" THEN "" ELSE LowerCh(Ch(s, 1)) \o Lower(SubSeq(s, 2, Len(s)))

RECURSIVE LStrip(_)
LStrip(s) ==
    IF s # "" /\ Ch(s, 1) \in Space THEN LStrip(SubSeq(s, 2, Len(s))) ELSE s

RECURSIVE RStrip(_)
RStrip(s) ==
    IF s # "" /\ Ch(s, Len(s)) \in Space
    THEN RStrip(SubSeq(s, 1, Len(s) - 1))
    ELSE s

Strip(s) == RStrip(LStrip(s))

RECURSIVE RemoveChars(_, _)
RemoveChars(s, cs) ==
    IF s = "" THEN ""
    ELSE (IF Ch(s, 1) \in cs THEN "" ELSE Ch(s, 1))
         \o RemoveChars(SubSeq(s, 2, Len(s)), cs)

RECURSIVE ReplaceChar(_, _, _)
ReplaceChar(s, c, r) ==
    IF s = "" THEN ""
    ELSE (IF Ch(s, 1) = c THEN r ELSE Ch(s, 1))
         \o ReplaceChar(SubSeq(s, 2, Len(s)), c, r)

Contains(s, sub) ==
    \E i \in 1..(Len(s) - Len(sub) + 1) : SubSeq(s, i, i + Len(sub) - 1) = sub

HasChar(s, c) == \E i \in 1..Len(s) : Ch(s, i) = c

RFind(s, c) ==
    IF HasChar(s, c)
    THEN CHOOSE i \in 1..Len(s) :
            Ch(s, i) = c /\ \A j \in (i + 1)..Len(s) : Ch(s, j) # c
    ELSE 0

\* ------------------------------------------------------------------
\* Regular expressions: syntax trees and the backtracking matcher
\* ------------------------------------------------------------------

Inf == 999

Set(S) == <<"set", S>>
Cat(list) == <<"cat", list>>
Alt(list) == <<"alt", list>>
Rep(n, lo, hi) == <<"rep", n, lo, hi>>
Grp(k, n) == <<"grp", k, n>>
NotAhead(n) == <<"nla", n>>
WordB == <<"wb">>
Bol == <<"bol">>
Eol == <<"eol">>

Plus(n) == Rep(n, 1, Inf)
Star(n) == Rep(n, 0, Inf)
Opt(n) == Rep(n, 0, 1)
Lit(str) == Cat([i \in 1..Len(str) |-> Set({Ch(str, i)})])
D == Set(Digit)
S == Set(Space)

NoGroups == << <<0, 0>>, <<0, 0>>, <<0, 0>> >>

IsWordAt(s, i) == i >= 1 /\ i <= Len(s) /\ Ch(s, i) \in WordChar

RECURSIVE Flat(_)
Flat(ss) == IF Len(ss) = 0 THEN <<>> ELSE Head(ss) \o Flat(Tail(ss))

\* M(n, s, i, g): every way node n matches s from position i, as
\* <<position after the match, groups>>, in the order the backtracking
\* matcher tries them.
RECURSIVE M(_, _, _, _)
RECURSIVE MCat(_, _, _, _, _)
RECURSIVE MRep(_, _, _, _, _, _, _)

M(n, s, i, g) ==
    CASE n[1] = "set" ->
            IF i <= Len(s) /\ Ch(s, i) \in n[2] THEN << <<i + 1, g>> >> ELSE <<>>
      [] n[1] = "cat" -> MCat(n[2], 1, s, i, g)
      [] n[1] = "alt" ->
            Flat([k \in 1..Len(n[2]) |-> M(n[2][k], s, i, g)])
      [] n[1] = "rep" -> MRep(n[2], n[3], n[4], 0, s, i, g)
      [] n[1] = "grp" ->
            LET r == M(n[3], s, i, g)
            IN  [k \in 1..Len(r) |->
                    <<r[k][1], [r[k][2] EXCEPT ![n[2]] = <<i, r[k][1]>>]>>]
      [] n[1] = "nla" ->
            IF Len(M(n[2], s, i, g)) = 0 THEN << <<i, g>> >> ELSE <<>>
      [] n[1] = "wb" ->
            IF IsWordAt(s, i - 1) # IsWordAt(s, i) THEN << <<i, g>> >> ELSE <<>>
      [] n[1] = "bol" -> IF i = 1 THEN << <<i, g>> >> ELSE <<>>
      [] n[1] = "eol" ->
            IF i = Len(s) + 1 \/ (i = Len(s) /\ Ch(s, i) = "\n")
            THEN << <<i, g>> >> ELSE <<>>

MCat(list, k, s, i, g) ==
    IF k > Len(list) THEN << <<i, g>> >>
    ELSE LET r == M(list[k], s, i, g)
         IN  Flat([j \in 1..Len(r) |-> MCat(list, k + 1, s, r[j][1], r[j][2])])

MRep(n, lo, hi, c, s, i, g) ==
    LET r == IF c < hi THEN M(n, s, i, g) ELSE <<>>
        more == Flat([j \in 1..Len(r) |->
                        IF r[j][1] > i
                        THEN MRep(n, lo, hi, c + 1, s, r[j][1], r[j][2])
                        ELSE <<>>])
    IN  more \o (IF c >= lo THEN << <<i, g>> >> ELSE <<>>)

NoMatch == [ok |-> FALSE, start |-> 0, end |-> 0, g |-> NoGroups]

\* re.match: the first way the pattern matches at the start of s.
ReMatch(n, s) ==
    LET First(r) ==
            IF Len(r) = 0 THEN NoMatch
            ELSE [ok |-> TRUE, start |-> 1, end |-> r[1][1], g |-> r[1][2]]
    IN  First(M(n, s, 1, NoGroups))

\* re.search from position i on: the leftmost match.
RECURSIVE SearchFrom(_, _, _)
SearchFrom(n, s, i) ==
    IF i > Len(s) + 1 THEN NoMatch
    ELSE LET First(r) ==
                 IF Len(r) = 0 THEN SearchFrom(n, s, i + 1)
                 ELSE [ok |-> TRUE, start |-> i, end |-> r[1][1],
                       g |-> r[1][2]]
         IN  First(M(n, s, i, NoGroups))

Search(n, s) == SearchFrom(n, s, 1)

\* re.finditer: successive non-overlapping matches, left to right.
RECURSIVE FindIterFrom(_, _, _)
FindIterFrom(n, s, i) ==
    LET Rest(m) ==
            IF ~m.ok THEN <<>>
            ELSE <<m>> \o FindIterFrom(n, s, IF m.end > m.start THEN m.end
                                             ELSE m.end + 1)
    IN  Rest(SearchFrom(n, s, i))

FindIter(n, s) == FindIterFrom(n, s, 1)

\* match.group(k); a group that took no part in the match reads as the
\* empty string.
Group(m, s, k) ==
    IF k = 0 THEN SubSeq(s, m.start, m.end - 1)
    ELSE IF ~m.ok \/ m.g[k] = <<0, 0>> THEN ""
    ELSE SubSeq(s, m.g[k][1], m.g[k][2] - 1)

\* re.sub(pattern, repl, s) for a constant replacement; the pattern is
\* matched against ls, which is s itself or, under re.IGNORECASE with a
\* lower-case pattern, s in lower case.
RECURSIVE SubFrom(_, _, _, _, _)
SubFrom(n, repl, s, ls, i) ==
    LET Rest(m) ==
            IF ~m.ok THEN SubSeq(s, i, Len(s))
            ELSE SubSeq(s, i, m.start - 1) \o repl
                 \o SubFrom(n, repl, s, ls, m.end)
    IN  Rest(SearchFrom(n, ls, i))

Sub(n, repl, s) == SubFrom(n, repl, s, s, 1)

SubIgnoreCase(n, repl, s) == SubFrom(n, repl, s, Lower(s), 1)

\* re.sub(r'\s+', ' ', text).strip()
CollapseSpaces(text) == Strip(Sub(Plus(S), " ", text))

\* ------------------------------------------------------------------
\* Numbers
\* ------------------------------------------------------------------

ValueError == <<"ValueError">>

DigitVal(c) == CHOOSE v \in 0..9 : Ch(DigitStr, v + 1) = c

\* int(s) for a text of digits.
RECURSIVE IntOf(_)
IntOf(s) ==
    IF s = "" THEN 0
    ELSE IntOf(SubSeq(s, 1, Len(s) - 1)) * 10 + DigitVal(Ch(s, Len(s)))

\* str(n) for n >= 0.
RECURSIVE IntStr(_)
IntStr(n) ==
    IF n < 10 THEN Ch(DigitStr, n + 1)
    ELSE IntStr(n \div 10) \o Ch(DigitStr, (n % 10) + 1)

\* A float is the exact decimal <<digits, e>> = digits * 10^e, the digits
\* a text without leading or trailing zeros; zero is <<"0", 0>>.
RECURSIVE Norm(_, _)
Norm(ds, e) ==
    IF ds = "" THEN <<"0", 0>>
    ELSE IF Ch(ds, 1) = "0" THEN Norm(SubSeq(ds, 2, Len(ds)), e)
    ELSE IF Ch(ds, Len(ds)) = "0" THEN Norm(SubSeq(ds, 1, Len(ds) - 1), e + 1)
    ELSE <<ds, e>>

\* The float n * 10^e.
Dec(n, e) == Norm(IntStr(n), e)

\* float(s) for a text of digits and dots.
Float(s) ==
    LET dots == {i \in 1..Len(s) : Ch(s, i) = "."}
    IN  IF Cardinality(dots) > 1 \/ Len(s) = Cardinality(dots)
           \/ \E i \in 1..Len(s) : Ch(s, i) \notin Digit \cup {"."}
        THEN ValueError
        ELSE IF dots = {} THEN Norm(s, 0)
        ELSE LET d == CHOOSE i \in dots : TRUE
                 fp == SubSeq(s, d + 1, Len(s))
             IN  Norm(SubSeq(s, 1, d - 1) \o fp, 0 - Len(fp))

\* x * 10^k
Times10(x, k) == IF x[1] = "0" THEN x ELSE <<x[1], x[2] + k>>

\* ------------------------------------------------------------------
\* parse_amount
\* ------------------------------------------------------------------

\* [rp$...]: the characters deleted as currency symbols (the non-ASCII
\* symbols of the class are outside the input alphabet).
CurrencyChars == {"r", "p", "$"}

\* (\d+(?:[.,]\d+)?)\s*([kjtrb]|ribu|rb|juta|jt|million|thousand|trillion|milyar)(?:\s|$)
multiplier_pattern ==
    Cat(<< Grp(1, Cat(<<Plus(D), Opt(Cat(<<Set({".", ","}), Plus(D)>>))>>)),
           Star(S),
           Grp(2, Alt(<< Set({"k", "j", "t", "r", "b"}), Lit("ribu"),
                         Lit("rb"), Lit("juta"), Lit("jt"), Lit("million"),
                         Lit("thousand"), Lit("trillion"), Lit("milyar") >>)),
           Alt(<<S, Eol>>) >>)

\* ^\d+([.,]\d{3})*([.,]\d{1,2})?$
simple_number_pattern ==
    Cat(<< Bol, Plus(D),
           Star(Grp(1, Cat(<<Set({".", ","}), Rep(D, 3, 3)>>))),
           Opt(Grp(2, Cat(<<Set({".", ","}), Rep(D, 1, 2)>>))),
           Eol >>)

\* (\d+(?:\.\d+)?)
fallback_number_pattern ==
    Grp(1, Cat(<<Plus(D), Opt(Cat(<<Set({"."}), Plus(D)>>))>>))

\* The exponent of ten the multiplier token stands for; an unlisted token
\* leaves the base amount as it is.
MultiplierExp(multiplier) ==
    CASE multiplier \in {"k", "ribu", "rb", "thousand"} -> 3
      [] multiplier \in {"juta", "jt", "million"} -> 6
      [] multiplier \in {"t", "trillion"} -> 12
      [] multiplier \in {"milyar"} -> 9
      [] OTHER -> 0

\* str.split(',') has one part more than the text has commas.
CommaParts(s) == Cardinality({i \in 1..Len(s) : Ch(s, i) = ","}) + 1

LastPartLen(s) == Len(s) - RFind(s, ",")

SimpleNumberTextMutant(t) ==
    IF HasChar(t, ",") /\ HasChar(t, ".")
    THEN ReplaceChar(ReplaceChar(t, ".", ""), ",", ".")
    ELSE IF HasChar(t, ",")
    THEN IF CommaParts(t) = 2 /\ LastPartLen(t) <= 2
         THEN ReplaceChar(t, ",", ".")
         ELSE ReplaceChar(t, ",", "")
    ELSE t

\* The separator handling of the simple-number branch.
SimpleNumberText(t) ==
    IF HasChar(t, ",") /\ HasChar(t, ".")
    THEN IF RFind(t, ",") > RFind(t, ".")
         THEN ReplaceChar(ReplaceChar(t, ".", ""), ",", ".")
         ELSE ReplaceChar(t, ",", "")
    ELSE IF HasChar(t, ",")
    THEN IF CommaParts(t) = 2 /\ LastPartLen(t) <= 2
         THEN ReplaceChar(t, ",", ".")
         ELSE ReplaceChar(t, ",", "")
    ELSE t

\* The text after strip, lower-casing and currency removal.
CleanAmountText(amount_text) ==
    RemoveChars(Lower(Strip(amount_text)), CurrencyChars)

parse_amount(amount_text) ==
    IF amount_text = "" THEN None
    ELSE
    LET OrNone(r) == IF r = ValueError THEN None ELSE r
        Fallback(t, fm) ==
            IF fm.ok THEN OrNone(Float(Group(fm, t, 1))) ELSE None
        Rest(t) ==
            IF ReMatch(simple_number_pattern, t).ok
            THEN OrNone(Float(SimpleNumberText(t)))
            ELSE Fallback(t, Search(fallback_number_pattern, t))
        Scaled(t, mm, base_amount) ==
            IF mm.ok /\ base_amount # ValueError
            THEN Times10(base_amount, MultiplierExp(Group(mm, t, 2)))
            ELSE Rest(t)
        Multiplied(t, mm) ==
            Scaled(t, mm, Float(ReplaceChar(Group(mm, t, 1), ",", ".")))
        Parse(t) == Multiplied(t, Search(multiplier_pattern, t))
    IN  Parse(CleanAmountText(amount_text))

\* ------------------------------------------------------------------
\* Calendar (datetime, timedelta)
\* ------------------------------------------------------------------

IsLeap(y) == y % 4 = 0 /\ (y % 100 # 0 \/ y % 400 = 0)

DaysInMonth(y, m) ==
    IF m = 2 THEN (IF IsLeap(y) THEN 29 ELSE 28)
    ELSE IF m \in {4, 6, 9, 11} THEN 30 ELSE 31

DaysBeforeYear(y) ==
    (y - 1) * 365 + (y - 1) \div 4 - (y - 1) \div 100 + (y - 1) \div 400

RECURSIVE DaysBeforeMonth(_, _)
DaysBeforeMonth(y, m) ==
    IF m = 1 THEN 0 ELSE DaysBeforeMonth(y, m - 1) + DaysInMonth(y, m - 1)

MaxYear == 9999

\* datetime(year, month, day) raises ValueError outside these ranges.
ValidDate(y, m, d) ==
    /\ y \in 1..MaxYear
    /\ m \in 1..12
    /\ d \in 1..DaysInMonth(y, m)

ToOrdinal(dt) == DaysBeforeYear(dt[1]) + DaysBeforeMonth(dt[1], dt[2]) + dt[3]

FromOrdinal(n) ==
    LET y == CHOOSE yy \in (n \div 366 + 1)..(n \div 365 + 1) :
                DaysBeforeYear(yy) < n /\ n <= DaysBeforeYear(yy + 1)
        r == n - DaysBeforeYear(y)
        m == CHOOSE mm \in 1..12 :
                /\ DaysBeforeMonth(y, mm) < r
                /\ r <= DaysBeforeMonth(y, mm) + DaysInMonth(y, mm)
    IN  <<y, m, r - DaysBeforeMonth(y, m)>>

\* datetime.weekday(): Monday is 0.
Weekday(dt) == (ToOrdinal(dt) + 6) % 7

\* dt + timedelta(days=n); a date outside the supported years raises
\* OverflowError, which parse_date_from_text turns into None.
AddDays(dt, n) ==
    IF ToOrdinal(dt) + n \in 1..DaysBeforeYear(MaxYear + 1)
    THEN FromOrdinal(ToOrdinal(dt) + n)
    ELSE None

\* dt.replace(...) and datetime(...): ValueError for a day the month lacks.
MakeDate(y, m, d) == IF ValidDate(y, m, d) THEN <<y, m, d>> ELSE ValueError

\* ------------------------------------------------------------------
\* datetime.strptime for the formats of date_formats
\* ------------------------------------------------------------------

D19 == Set(Digit \ {"0"})

\* %d: 3[0-1]|[1-2]\d|0[1-9]|[1-9]| [1-9]
PctD ==
    Alt(<< Cat(<<Set({"3"}), Set({"0", "1"})>>), Cat(<<Set({"1", "2"}), D>>),
           Cat(<<Set({"0"}), D19>>), D19, Cat(<<Set({" "}), D19>>) >>)

\* %m: 1[0-2]|0[1-9]|[1-9]
PctM ==
    Alt(<< Cat(<<Set({"1"}), Set({"0", "1", "2"})>>), Cat(<<Set({"0"}), D19>>),
           D19 >>)

\* %Y: \d\d\d\d      %y: \d\d
PctY == Rep(D, 4, 4)
PctShortY == Rep(D, 2, 2)

\* Group 1 is the day, group 2 the month, group 3 the year.
DmyFormat(sep, year) ==
    Cat(<<Grp(1, PctD), sep, Grp(2, PctM), sep, Grp(3, year)>>)

date_formats ==
    << [re |-> DmyFormat(Lit("/"), PctY), century |-> FALSE],
       [re |-> DmyFormat(Lit("-"), PctY), century |-> FALSE],
       [re |-> DmyFormat(Lit("."), PctY), century |-> FALSE],
       [re |-> Cat(<<Grp(3, PctY), Lit("-"), Grp(2, PctM), Lit("-"),
                     Grp(1, PctD)>>), century |-> FALSE],
       [re |-> DmyFormat(Lit("/"), PctShortY), century |-> TRUE],
       [re |-> DmyFormat(Lit("-"), PctShortY), century |-> TRUE],
       [re |-> DmyFormat(Plus(S), PctY), century |-> FALSE] >>

\* A two-digit year up to 68 is in the 2000s, from 69 on in the 1900s.
Strptime(s, fmt) ==
    LET Year(yy) == IF ~fmt.century THEN yy
                    ELSE IF yy <= 68 THEN 2000 + yy ELSE 1900 + yy
        Convert(m) ==
            IF ~m.ok \/ m.end # Len(s) + 1 THEN ValueError
            ELSE MakeDate(Year(IntOf(Group(m, s, 3))),
                          IntOf(LStrip(Group(m, s, 2))),
                          IntOf(LStrip(Group(m, s, 1))))
    IN  Convert(ReMatch(fmt.re, s))

RECURSIVE StandardFormats(_, _)
StandardFormats(date_text, k) ==
    IF k > Len(date_formats) THEN None
    ELSE LET Try(r) ==
                 IF r # ValueError THEN r ELSE StandardFormats(date_text, k + 1)
         IN  Try(Strptime(date_text, date_formats[k]))

\* ------------------------------------------------------------------
\* parse_date_from_text
\* ------------------------------------------------------------------

month_names ==
    << <<"januari", 1>>, <<"jan", 1>>,
       <<"februari", 2>>, <<"feb", 2>>, <<"peb", 2>>,
       <<"maret", 3>>, <<"mar", 3>>,
       <<"april", 4>>, <<"apr", 4>>,
       <<"mei", 5>>,
       <<"juni", 6>>, <<"jun", 6>>,
       <<"juli", 7>>, <<"jul", 7>>,
       <<"agustus", 8>>, <<"agu", 8>>, <<"ags", 8>>,
       <<"september", 9>>, <<"sep", 9>>,
       <<"oktober", 10>>, <<"okt", 10>>,
       <<"november", 11>>, <<"nov", 11>>,
       <<"desember", 12>>, <<"des", 12>> >>

IsMonthName(w) == \E k \in 1..Len(month_names) : month_names[k][1] = w

MonthOf(w) ==
    month_names[CHOOSE k \in 1..Len(month_names) : month_names[k][1] = w][2]

AZ == Set(LowerAlpha)
SlashDash == Set({"/", "-"})

\* (\d{1,2})\s+([a-z]+)(?:\s+(\d{4}))?
\* (\d{1,2})[\/\-]([a-z]+)[\/\-]?(\d{4})?
\* ([a-z]+)\s+(\d{1,2})(?:\s+(\d{4}))?
month_patterns ==
    << Cat(<<Grp(1, Rep(D, 1, 2)), Plus(S), Grp(2, Plus(AZ)),
             Opt(Cat(<<Plus(S), Grp(3, Rep(D, 4, 4))>>))>>),
       Cat(<<Grp(1, Rep(D, 1, 2)), SlashDash, Grp(2, Plus(AZ)),
             Opt(SlashDash), Opt(Grp(3, Rep(D, 4, 4)))>>),
       Cat(<<Grp(1, Plus(AZ)), Plus(S), Grp(2, Rep(D, 1, 2)),
             Opt(Cat(<<Plus(S), Grp(3, Rep(D, 4, 4))>>))>>) >>

IsDigitStr(w) == w # "" /\ \A i \in 1..Len(w) : Ch(w, i) \in Digit

\* The loop over month_patterns from pattern k on: the date of the first
\* pattern that matches with a known month name and a valid day.
RECURSIVE MonthNameDate(_, _, _)
MonthNameDate(date_text, today, k) ==
    IF k > Len(month_patterns) THEN None
    ELSE
    LET Continue == MonthNameDate(date_text, today, k + 1)
        Try(result) == IF result # ValueError THEN result ELSE Continue
        Build(day, month_str, year) ==
            IF IsMonthName(month_str)
            THEN Try(MakeDate(year, MonthOf(month_str), day))
            ELSE Continue
        Groups(g1, g2, g3) ==
            Build(IF IsDigitStr(g1) THEN IntOf(g1) ELSE IntOf(g2),
                  IF IsDigitStr(g1) THEN g2 ELSE g1,
                  IF g3 # "" THEN IntOf(g3) ELSE today[1])
        Matched(m) ==
            IF m.ok
            THEN Groups(Group(m, date_text, 1), Group(m, date_text, 2),
                        Group(m, date_text, 3))
            ELSE Continue
    IN  Matched(Search(month_patterns[k], date_text))

days_map ==
    << <<"senin", 0>>, <<"monday", 0>>,
       <<"selasa", 1>>, <<"tuesday", 1>>,
       <<"rabu", 2>>, <<"wednesday", 2>>,
       <<"kamis", 3>>, <<"thursday", 3>>,
       <<"jumat", 4>>, <<"friday", 4>>,
       <<"sabtu", 5>>, <<"saturday", 5>>,
       <<"minggu", 6>>, <<"sunday", 6>>, <<"ahad", 6>> >>

HasDayName(date_text) ==
    \E k \in 1..Len(days_map) : Contains(date_text, days_map[k][1])

\* The first entry of days_map whose name occurs in the text.
FirstDayNum(date_text) ==
    days_map[CHOOSE k \in 1..Len(days_map) :
                /\ Contains(date_text, days_map[k][1])
                /\ \A j \in 1..(k - 1) : ~Contains(date_text, days_map[j][1])][2]

DaysAheadMutant(day_num, today) == (day_num - Weekday(today)) % 7

\* days_ahead = day_num - today.weekday(); if days_ahead <= 0: days_ahead += 7
DaysAhead(day_num, today) ==
    LET days_ahead == day_num - Weekday(today)
    IN  IF days_ahead <= 0 THEN days_ahead + 7 ELSE days_ahead

WeekdayDate(date_text, today) ==
    AddDays(today, DaysAhead(FirstDayNum(date_text), today))

Hari == Lit("hari")
Lalu == Lit("lalu")

\* (\d+)\s*hari\s*lalu             days = N
\* (\d+)\s*hari\s*yang\s*lalu      days = N
\* seminggu\s*lalu                 weeks = 1
\* (\d+)\s*minggu\s*lalu           weeks = N
\* (\d+)\s*bulan\s*lalu            days = N * 30
relative_patterns ==
    << [re |-> Cat(<<Grp(1, Plus(D)), Star(S), Hari, Star(S), Lalu>>),
        unit |-> 1, fixed |-> FALSE],
       [re |-> Cat(<<Grp(1, Plus(D)), Star(S), Hari, Star(S), Lit("yang"),
                     Star(S), Lalu>>),
        unit |-> 1, fixed |-> FALSE],
       [re |-> Cat(<<Lit("seminggu"), Star(S), Lalu>>),
        unit |-> 7, fixed |-> TRUE],
       [re |-> Cat(<<Grp(1, Plus(D)), Star(S), Lit("minggu"), Star(S), Lalu>>),
        unit |-> 7, fixed |-> FALSE],
       [re |-> Cat(<<Grp(1, Plus(D)), Star(S), Lit("bulan"), Star(S), Lalu>>),
        unit |-> 30, fixed |-> FALSE] >>

HasRelative(date_text) ==
    \E k \in 1..Len(relative_patterns) :
        Search(relative_patterns[k].re, date_text).ok

RelativeDateMutant(date_text, today) ==
    LET Count(p, m) == IF p.fixed THEN 1 ELSE IntOf(Group(m, date_text, 1))
        Back(p) ==
            AddDays(today, Count(p, Search(p.re, date_text)) * p.unit)
        First(k) == Back(relative_patterns[k])
    IN  First(CHOOSE kk \in 1..Len(relative_patterns) :
                /\ Search(relative_patterns[kk].re, date_text).ok
                /\ \A j \in 1..(kk - 1) :
                      ~Search(relative_patterns[j].re, date_text).ok)

RelativeDate(date_text, today) ==
    LET Count(p, m) == IF p.fixed THEN 1 ELSE IntOf(Group(m, date_text, 1))
        Back(p) ==
            AddDays(today, 0 - Count(p, Search(p.re, date_text)) * p.unit)
        First(k) == Back(relative_patterns[k])
    IN  First(CHOOSE kk \in 1..Len(relative_patterns) :
                /\ Search(relative_patterns[kk].re, date_text).ok
                /\ \A j \in 1..(kk - 1) :
                      ~Search(relative_patterns[j].re, date_text).ok)

\* (?:tgl|tanggal)\s*(\d{1,2})
\* (?:pada\s*)?(?:tanggal\s*)?(\d{1,2})(?!\s*[\/\-]\s*\d)
shortcut_patterns ==
    << Cat(<<Alt(<<Lit("tgl"), Lit("tanggal")>>), Star(S),
             Grp(1, Rep(D, 1, 2))>>),
       Cat(<<Opt(Cat(<<Lit("pada"), Star(S)>>)),
             Opt(Cat(<<Lit("tanggal"), Star(S)>>)),
             Grp(1, Rep(D, 1, 2)),
             NotAhead(Cat(<<Star(S), SlashDash, Star(S), D>>))>>) >>

Before(a, b) == ToOrdinal(a) < ToOrdinal(b)

NextMonthDate(today, day) ==
    IF today[2] = 12 THEN MakeDate(today[1] + 1, 1, day)
    ELSE MakeDate(today[1], today[2] + 1, day)

\* The body of the shortcut loop for one day number: today.replace(day),
\* rolled into the next month when it is past; a ValueError of either
\* step is retried once as a date of the next month.
ShortcutDay(today, day) ==
    LET Retry(rolled) ==
            IF rolled # ValueError THEN rolled ELSE NextMonthDate(today, day)
        Roll(result) ==
            IF result # ValueError /\ Before(result, today)
            THEN NextMonthDate(today, day)
            ELSE result
    IN  Retry(Roll(MakeDate(today[1], today[2], day)))

RECURSIVE ShortcutDate(_, _, _)
ShortcutDate(date_text, today, k) ==
    IF k > Len(shortcut_patterns) THEN None
    ELSE
    LET Continue == ShortcutDate(date_text, today, k + 1)
        Try(result) == IF result # ValueError THEN result ELSE Continue
        Day(day) ==
            IF day \in 1..31 THEN Try(ShortcutDay(today, day)) ELSE Continue
        Matched(m) ==
            IF m.ok THEN Day(IntOf(Group(m, date_text, 1))) ELSE Continue
    IN  Matched(Search(shortcut_patterns[k], date_text))

NaturalWords ==
    {"hari ini", "today", "sekarang", "kemarin", "yesterday", "besok",
     "tomorrow", "lusa", "day after tomorrow"}

NaturalOffsetMutant(date_text) ==
    IF date_text \in {"hari ini", "today", "sekarang"} THEN 0
    ELSE IF date_text \in {"kemarin", "yesterday"} THEN 1
    ELSE IF date_text \in {"besok", "tomorrow"} THEN 0 - 1
    ELSE 2

\* The timedelta, in days, of the natural-language branch.
NaturalOffset(date_text) ==
    IF date_text \in {"hari ini", "today", "sekarang"} THEN 0
    ELSE IF date_text \in {"kemarin", "yesterday"} THEN 0 - 1
    ELSE IF date_text \in {"besok", "tomorrow"} THEN 1
    ELSE 2

\* today is the value datetime.now() returns at the call.
parse_date_from_text(text, today) ==
    IF text = "" THEN None
    ELSE
    LET Later(date_text) ==
            IF HasDayName(date_text) THEN WeekdayDate(date_text, today)
            ELSE IF HasRelative(date_text) THEN RelativeDate(date_text, today)
            ELSE ShortcutDate(date_text, today, 1)
        ByMonthName(date_text, result) ==
            IF result # None THEN result ELSE Later(date_text)
        ByFormat(date_text, result) ==
            IF result # None THEN result
            ELSE ByMonthName(date_text, MonthNameDate(date_text, today, 1))
        Parse(date_text) ==
            IF date_text \in NaturalWords
            THEN AddDays(today, NaturalOffset(date_text))
            ELSE ByFormat(date_text, StandardFormats(date_text, 1))
    IN  Parse(Lower(Strip(text)))

\* ------------------------------------------------------------------
\* parse_transaction_text
\* ------------------------------------------------------------------

income_keywords ==
    << "gaji", "salary", "upah", "bonus", "tunjangan", "terima", "dapat",
       "pendapatan", "pemasukan", "income", "transfer masuk", "dividen",
       "bunga", "profit", "keuntungan", "freelance", "project fee" >>

expense_keywords ==
    << "beli", "bayar", "buat", "untuk", "spend", "expense", "keluar",
       "shopping", "belanja", "makan", "transport", "bensin", "listrik",
       "internet", "tagihan", "cicilan", "top up", "isi ulang" >>

D12 == Rep(D, 1, 2)

MonthWord ==
    Alt(<< Lit("januari"), Lit("februari"), Lit("maret"), Lit("april"),
           Lit("mei"), Lit("juni"), Lit("juli"), Lit("agustus"),
           Lit("september"), Lit("oktober"), Lit("november"), Lit("desember"),
           Lit("jan"), Lit("feb"), Lit("mar"), Lit("apr"), Lit("jun"),
           Lit("jul"), Lit("agu"), Lit("sep"), Lit("okt"), Lit("nov"),
           Lit("des") >>)

YangOpt == Opt(Cat(<<Lit("yang"), Star(S)>>))

\* The twelve patterns of date_patterns, in the order of the source; all
\* are compiled with re.IGNORECASE.
date_patterns ==
    << Cat(<<WordB, Grp(1, Cat(<<D12, SlashDash, D12, SlashDash,
                                 Rep(D, 4, 4)>>)), WordB>>),
       Cat(<<WordB, Grp(1, Cat(<<D12, SlashDash, D12, SlashDash,
                                 Rep(D, 2, 2)>>)), WordB>>),
       Cat(<<WordB, Grp(1, Cat(<<D12, Lit("."), D12, Lit("."),
                                 Rep(D, 4, 4)>>)), WordB>>),
       Cat(<<WordB, Grp(1, Cat(<<D12, Plus(S), MonthWord,
                                 Opt(Cat(<<Plus(S), Rep(D, 4, 4)>>))>>)),
             WordB>>),
       Cat(<<WordB, Grp(1, Alt(<<Lit("kemarin"), Lit("yesterday")>>)), WordB>>),
       Cat(<<WordB, Grp(1, Alt(<<Lit("besok"), Lit("tomorrow")>>)), WordB>>),
       Cat(<<WordB, Grp(1, Lit("lusa")), WordB>>),
       Cat(<<WordB, Grp(1, Alt(<<Lit("senin"), Lit("selasa"), Lit("rabu"),
                                 Lit("kamis"), Lit("jumat"), Lit("sabtu"),
                                 Lit("minggu"), Lit("ahad")>>)), WordB>>),
       Cat(<<WordB, Alt(<<Lit("tgl"), Lit("tanggal")>>), Star(S),
             Grp(1, D12), WordB>>),
       Cat(<<WordB, Opt(Cat(<<Lit("pada"), Star(S)>>)),
             Cat(<<Lit("tanggal"), Star(S)>>), Grp(1, D12), WordB>>),
       Cat(<<WordB, Grp(1, Plus(D)), Star(S), Hari, Star(S), YangOpt, Lalu,
             WordB>>),
       Cat(<<WordB, Grp(1, Plus(D)), Star(S), Lit("minggu"), Star(S), YangOpt,
             Lalu, WordB>>) >>

\* (\d+(?:[.,]\d+)?\s*(?:rb|ribu|k|jt|juta|m|million|t|trillion|milyar|b))
\* (\d+(?:[.,]\d{3})*(?:[.,]\d{2})?)
\* (\d+(?:\.\d+)?)
amount_patterns ==
    << Grp(1, Cat(<<Plus(D), Opt(Cat(<<Set({".", ","}), Plus(D)>>)), Star(S),
                    Alt(<<Lit("rb"), Lit("ribu"), Lit("k"), Lit("jt"),
                          Lit("juta"), Lit("m"), Lit("million"), Lit("t"),
                          Lit("trillion"), Lit("milyar"), Lit("b")>>)>>)),
       Grp(1, Cat(<<Plus(D), Star(Cat(<<Set({".", ","}), Rep(D, 3, 3)>>)),
                    Opt(Cat(<<Set({".", ","}), Rep(D, 2, 2)>>))>>)),
       Grp(1, Cat(<<Plus(D), Opt(Cat(<<Set({"."}), Plus(D)>>))>>)) >>

\* \b(pada|di|untuk|dari|ke|yang|adalah|dengan|ditanggal|di tanggal|pd|tgl|tanggal)\b
connecting_words ==
    Cat(<<WordB,
          Grp(1, Alt(<<Lit("pada"), Lit("di"), Lit("untuk"), Lit("dari"),
                       Lit("ke"), Lit("yang"), Lit("adalah"), Lit("dengan"),
                       Lit("ditanggal"), Lit("di tanggal"), Lit("pd"),
                       Lit("tgl"), Lit("tanggal")>>)),
          WordB>>)

\* text[:match.start()] + ' ' + text[match.end():], whitespace collapsed.
RemoveSpan(text, m) ==
    CollapseSpaces(SubSeq(text, 1, m.start - 1) \o " "
                   \o SubSeq(text, m.end, Len(text)))

NoFind == [found |-> FALSE, value |-> None, text |-> ""]

\* The first match of the list, from index j on, whose group 1 parses to a
\* date.
RECURSIVE FirstDateMatch(_, _, _, _)
FirstDateMatch(matches, j, text, today) ==
    IF j > Len(matches) THEN NoFind
    ELSE LET Try(parsed_date) ==
                 IF parsed_date # None
                 THEN [found |-> TRUE, value |-> parsed_date,
                       text |-> RemoveSpan(text, matches[j])]
                 ELSE FirstDateMatch(matches, j + 1, text, today)
         IN  Try(parse_date_from_text(Group(matches[j], text, 1), today))

\* The date loop from pattern k on: the date found and the text without
\* its span, or the text unchanged.
RECURSIVE ExtractDate(_, _, _)
ExtractDate(text, today, k) ==
    IF k > Len(date_patterns) THEN [found |-> FALSE, value |-> None, text |-> text]
    ELSE LET Try(r) == IF r.found THEN r ELSE ExtractDate(text, today, k + 1)
         IN  Try(FirstDateMatch(FindIter(date_patterns[k], Lower(text)), 1,
                                text, today))

\* if parsed_amount and parsed_amount > 0
Positive(x) == x # None /\ x[1] # "0"

RECURSIVE FirstAmountMatch(_, _, _)
FirstAmountMatch(matches, j, text) ==
    IF j > Len(matches) THEN NoFind
    ELSE LET Try(parsed_amount) ==
                 IF Positive(parsed_amount)
                 THEN [found |-> TRUE, value |-> parsed_amount,
                       text |-> RemoveSpan(text, matches[j])]
                 ELSE FirstAmountMatch(matches, j + 1, text)
         IN  Try(parse_amount(Group(matches[j], text, 1)))

RECURSIVE ExtractAmount(_, _)
ExtractAmount(text, k) ==
    IF k > Len(amount_patterns) THEN [found |-> FALSE, value |-> None, text |-> text]
    ELSE LET Try(r) == IF r.found THEN r ELSE ExtractAmount(text, k + 1)
         IN  Try(FirstAmountMatch(FindIter(amount_patterns[k], Lower(text)),
                                  1, text))

TransactionTypeMutant(text, original_text) ==
    IF \E k \in 1..Len(income_keywords) :
          Contains(Lower(original_text), income_keywords[k])
    THEN "income" ELSE "expense"

TransactionType(text, original_text) ==
    IF \E k \in 1..Len(income_keywords) :
          \/ Contains(Lower(text), income_keywords[k])
          \/ Contains(Lower(original_text), income_keywords[k])
    THEN "income" ELSE "expense"

CapitalizeMutant(description) ==
    IF description = "" THEN ""
    ELSE UpperCh(Ch(description, 1)) \o SubSeq(description, 2, Len(description))

Capitalize(description) ==
    IF description = "" THEN "Transaksi"
    ELSE UpperCh(Ch(description, 1)) \o SubSeq(description, 2, Len(description))

Description(text, transaction_type) ==
    LET d0 == Strip(text)
        d1 == IF d0 = ""
              THEN (IF transaction_type = "expense" THEN "Transaksi"
                    ELSE "Pemasukan")
              ELSE d0
    IN  Capitalize(CollapseSpaces(SubIgnoreCase(connecting_words, "", d1)))

\* The result of Python's None.
NoTransaction ==
    [type |-> "None", amount |-> None, description |-> "", date |-> None]

NoAmountMutant(amount) == FALSE

\* if not amount: None and 0.0 are both falsy.
NoAmount(amount) == amount = None \/ amount[1] = "0"

\* The local variable text when the call returns: the input without the
\* date span and the amount span.
RemainingText(input, today) ==
    LET Amount(ar) == ar.text
        Dated(dr) == Amount(ExtractAmount(dr.text, 1))
    IN  Dated(ExtractDate(Strip(input), today, 1))

\* today is the value datetime.now() returns during the call; a result
\* without the 'date' key has date = None.
parse_transaction_textMutant(input, today) ==
    LET Result(dr, ar, transaction_type) ==
            IF NoAmount(ar.value) THEN NoTransaction
            ELSE [type |-> transaction_type,
                  amount |-> ar.value,
                  description |-> Description(dr.text, transaction_type),
                  date |-> dr.value]
        Typed(original_text, ar, dr) ==
            Result(dr, ar, TransactionType(dr.text, original_text))
        Amount(original_text, ar) ==
            Typed(original_text, ar, ExtractDate(ar.text, today, 1))
        Parse(original_text) ==
            Amount(original_text, ExtractAmount(original_text, 1))
    IN  Parse(Strip(input))

parse_transaction_text(input, today) ==
    LET Result(dr, ar, transaction_type) ==
            IF NoAmount(ar.value) THEN NoTransaction
            ELSE [type |-> transaction_type,
                  amount |-> ar.value,
                  description |-> Description(ar.text, transaction_type),
                  date |-> dr.value]
        Typed(original_text, dr, ar) ==
            Result(dr, ar, TransactionType(ar.text, original_text))
        Dated(original_text, dr) ==
            Typed(original_text, dr, ExtractAmount(dr.text, 1))
        Parse(original_text) ==
            Dated(original_text, ExtractDate(original_text, today, 1))
    IN  Parse(Strip(input))

\* ------------------------------------------------------------------
\* detect_transaction_category
\* ------------------------------------------------------------------

Category(name, keywords) == [name |-> name, keywords |-> keywords]

\* Config.DEFAULT_CATEGORIES.get(transaction_type, [])
DEFAULT_CATEGORIES(transaction_type) ==
    CASE transaction_type = "income" ->
            << Category("Gaji", <<"gaji", "salary", "upah">>),
               Category("Bonus", <<"bonus", "tunjangan">>),
               Category("Investasi", <<"dividen", "bunga", "profit">>),
               Category("Freelance", <<"freelance", "project", "client">>),
               Category("Lainnya", <<"lain", "other", "misc">>) >>
      [] transaction_type = "expense" ->
            << Category("Makanan", <<"makan", "food", "groceries",
                                     "restaurant", "cafe">>),
               Category("Transport", <<"bensin", "fuel", "grab", "gojek",
                                       "taxi", "bus">>),
               Category("Belanja", <<"beli", "shopping", "market", "mall">>),
               Category("Tagihan", <<"listrik", "internet", "air", "telepon",
                                     "wifi">>),
               Category("Kesehatan", <<"dokter", "obat", "hospital",
                                       "medical">>),
               Category("Hiburan", <<"movie", "game", "concert", "vacation">>),
               Category("Pendidikan", <<"kursus", "buku", "course",
                                        "training">>),
               Category("Lainnya", <<"lain", "other", "misc">>) >>
      [] OTHER -> <<>>

\* Config.DEFAULT_CATEGORIES as config.py sets it.
DefaultTaxonomy ==
    [income |-> DEFAULT_CATEGORIES("income"),
     expense |-> DEFAULT_CATEGORIES("expense")]

GetMutant(categories_of, key) ==
    IF key \in DOMAIN categories_of THEN categories_of[key]
    ELSE categories_of["expense"]

\* dict.get(key, []) on a taxonomy.
Get(categories_of, key) ==
    IF key \in DOMAIN categories_of THEN categories_of[key] ELSE <<>>

\* What one keyword adds to the score of its category.
KeywordScore(keyword, description_lower) ==
    IF Contains(description_lower, Lower(keyword))
    THEN Len(keyword) * 2
         + (IF Contains(" " \o description_lower \o " ",
                        " " \o Lower(keyword) \o " ")
            THEN 5 ELSE 0)
    ELSE 0

\* The inner loop from keyword k on.
RECURSIVE CategoryScore(_, _, _)
CategoryScore(keywords, k, description_lower) ==
    IF k > Len(keywords) THEN 0
    ELSE KeywordScore(keywords[k], description_lower)
         + CategoryScore(keywords, k + 1, description_lower)

\* category_scores after the outer loop from category k on: the names
\* with a score above 0 and their scores, in the order of insertion.
RECURSIVE CategoryScores(_, _, _)
CategoryScores(categories, k, description_lower) ==
    IF k > Len(categories) THEN <<>>
    ELSE LET Entry(score) ==
                 IF score > 0
                 THEN << [name |-> categories[k].name, score |-> score] >>
                 ELSE <<>>
         IN  Entry(CategoryScore(categories[k].keywords, 1, description_lower))
             \o CategoryScores(categories, k + 1, description_lower)

\* max(category_scores, key=category_scores.get): the first entry with
\* the highest score.
RECURSIVE MaxByScore(_, _, _)
MaxByScore(scores, k, best) ==
    IF k > Len(scores) THEN best
    ELSE MaxByScore(scores, k + 1,
                    IF scores[k].score > best.score THEN scores[k] ELSE best)

detect_transaction_categoryMutant(description, transaction_type) ==
    LET Best(category_scores) ==
            IF Len(category_scores) > 0
            THEN category_scores[1].name
            ELSE "Lainnya"
    IN  Best(CategoryScores(Get(taxonomy, transaction_type), 1,
                            Lower(description)))

\* The category of a description: the best of the categories that
\* scored, 'Lainnya' when none did.
detect_transaction_category(description, transaction_type) ==
    LET Best(category_scores) ==
            IF Len(category_scores) > 0
            THEN MaxByScore(category_scores, 2, category_scores[1]).name
            ELSE "Lainnya"
    IN  Best(CategoryScores(Get(taxonomy, transaction_type), 1,
                            Lower(description)))

\* ------------------------------------------------------------------
\* The texts the client passes to the functions
\* ------------------------------------------------------------------

MaxTicks == 7
MaxGroupCount == 2
MaxWeeks == 2
MaxAgo == 3

Seps == {".", ","}

\* The magnitude suffixes and the power of ten each stands for.
SuffixTable ==
    << <<"k", 3>>, <<"ribu", 3>>, <<"rb", 3>>, <<"thousand", 3>>,
       <<"juta", 6>>, <<"jt", 6>>, <<"million", 6>>,
       <<"milyar", 9>>,
       <<"t", 12>>, <<"trillion", 12>> >>

\* Base numbers <<text, n, e>>: the text reads n * 10^e.
BaseTable ==
    << <<"150", 150, 0>>, <<"15", 15, 0>>, <<"1.5", 15, 0 - 1>>,
       <<"2.5", 25, 0 - 1>> >>

SuffixedText(b, w, k) == BaseTable[b][1] \o w \o SuffixTable[k][1]

SuffixedTexts ==
    {SuffixedText(b, w, k) :
        b \in 1..Len(BaseTable), w \in {"", " "}, k \in 1..Len(SuffixTable)}

GroupDigits == <<"234", "567", "890">>

GroupAt(k) == GroupDigits[((k - 1) % Len(GroupDigits)) + 1]

\* A head followed by exactly k groups of three digits.
RECURSIVE Grouped(_)
Grouped(k) ==
    IF k = 0 THEN {"1", "12"}
    ELSE {t \o sep \o GroupAt(k) : t \in Grouped(k - 1), sep \in Seps}

GroupedTexts == UNION {Grouped(k) : k \in 0..MaxGroupCount}

\* Plain numbers: grouped digits, with or without a fraction of one or two
\* digits.
PlainTexts ==
    GroupedTexts
    \cup {t \o sep \o f : t \in GroupedTexts, sep \in Seps, f \in {"5", "56"}}

ExampleAmountTexts ==
    {"150.000", "150,000", "0", "0rb", "abc", "Rp 150,000", "Rp 15rb"}

\* Texts that none of the two first rules of parse_amount takes, with
\* and without a digit.
FallbackTexts == {"", "rp", "dua ribu", "12abc", "a1", "1.2.3"}

\* Amount texts written after the currency token, with and without a
\* space.
CurrencyBases == {"150,000", "15rb", "50.000", "5000", "1.5jt"}

CurrencyTexts ==
    CurrencyBases
    \cup {"Rp " \o a : a \in CurrencyBases}
    \cup {"Rp" \o a : a \in CurrencyBases}

AmountTexts ==
    SuffixedTexts \cup PlainTexts \cup ExampleAmountTexts
    \cup FallbackTexts \cup CurrencyTexts

WeekdayNames == {days_map[k][1] : k \in 1..Len(days_map)}

WeeksAgoText(n) == IntStr(n) \o " minggu lalu"

DaysAgoText(n) == IntStr(n) \o " hari lalu"
DaysAgoYangText(n) == IntStr(n) \o " hari yang lalu"
MonthsAgoText(n) == IntStr(n) \o " bulan lalu"

AgoTexts ==
    UNION {{DaysAgoText(n), DaysAgoYangText(n), MonthsAgoText(n)} :
              n \in 0..MaxAgo}

\* A day and a month name without a year: <<text, month, day>>.
MonthDayTable ==
    << <<"25 Januari", 1, 25>>, <<"25 Des", 12, 25>>, <<"3 jan", 1, 3>>,
       <<"agustus 25", 8, 25>> >>

MonthDayTexts == {MonthDayTable[k][1] : k \in 1..Len(MonthDayTable)}

ShortcutWords == {"tgl", "tanggal"}

ShortcutText(w, n) == w \o " " \o IntStr(n)

ShortcutTexts == {ShortcutText(w, n) : w \in ShortcutWords, n \in 1..31}

\* Numeric date literals that denote no calendar date.
InvalidDateTexts == {"31/02/2025", "15/13/2025", "31.02.2025"}

\* Texts that hold none of the date forms.
NoDateTexts == {"halo", "makan siang", "15", "beli 5 apel"}

DateTexts ==
    NaturalWords \cup WeekdayNames
    \cup {"25/12/2024", "tgl 15", "seminggu lalu"}
    \cup {WeeksAgoText(n) : n \in 1..MaxWeeks}
    \cup AgoTexts
    \cup MonthDayTexts \cup {"25 desember 2024"}
    \cup ShortcutTexts
    \cup InvalidDateTexts
    \cup NoDateTexts

\* Descriptions <<text, type>> and trailing amounts <<text, n, e>>.
DescriptionTable ==
    << <<"Beli makan", "expense">>, <<"Gaji bulan ini", "income">>,
       <<"Ngopi", "expense">> >>

TrailingAmountTable ==
    << <<"25000", 25000, 0>>, <<"5 juta", 5, 6>>, <<"50k", 50, 3>>,
       <<"25rb", 25, 3>>, <<"5 million", 5, 6>> >>

AmountLastText(d, a) ==
    DescriptionTable[d][1] \o " " \o TrailingAmountTable[a][1]

AmountLastTexts ==
    {AmountLastText(d, a) :
        d \in 1..Len(DescriptionTable), a \in 1..Len(TrailingAmountTable)}

ExampleTransactionTexts ==
    {"halo apa kabar", "Ngopi 15rb tanggal 22/08/2025",
     "Bayar listrik 150rb kemarin", "Gaji 0", "beli 0 apel", "0rb",
     "Makan 50k kemarin", "kemarin"}

InvalidDateTransaction(t) == "Makan 50k " \o t

InvalidDateTransactionTexts ==
    {InvalidDateTransaction(t) : t \in InvalidDateTexts}

\* Texts with income keywords, expense keywords, both or neither.
KeywordTexts ==
    {"project 5000 fee", "transfer 5000 masuk", "beli bonus 5000",
     "bayar gaji 2jt", "Terima 50k", "bayar listrik 5000", "5000 rokok",
     "PROFIT 10000"}

\* Texts that are an amount with nothing or only filler words around it.
BareAmountTexts ==
    {"5000", "untuk 5000", "25rb kemarin", "pada tanggal 5 50k",
     "ngopi 5000", "5000 5000"}

\* The format "jumlah deskripsi" of the quick-entry prompts: leading
\* amounts <<text, n, e>> and the descriptions that follow them.
LeadingAmountTable ==
    << <<"25000", 25000, 0>>, <<"150rb", 150, 3>>, <<"2jt", 2, 6>>,
       <<"5000000", 5, 6>> >>

FollowingDescriptions ==
    <<"Beli makan", "Bayar listrik", "Bonus project", "Gaji bulanan">>

AmountFirstText(a, d) ==
    LeadingAmountTable[a][1] \o " " \o FollowingDescriptions[d]

AmountFirstTexts ==
    {AmountFirstText(a, d) :
        a \in 1..Len(LeadingAmountTable), d \in 1..Len(FollowingDescriptions)}

\* Date expressions that date_patterns matches with a group that is a part
\* of the span only.
DateSpans ==
    {DaysAgoText(n) : n \in 1..MaxAgo}
    \cup {WeeksAgoText(n) : n \in 1..MaxWeeks}
    \cup {ShortcutText("tgl", n) : n \in {5, 25, 31}}

DatedTransaction(span) == "Makan 50k " \o span

DatedTransactionTexts == {DatedTransaction(span) : span \in DateSpans}

\* Date expressions <<text, k>> that date_patterns[k] matches as a whole;
\* "00/00/2025" has the form of a date and parses to none.
SpanTable ==
    << <<"20/08/2025", 1>>, <<"21/08/2025", 1>>, <<"00/00/2025", 1>>,
       <<"kemarin", 5>>, <<"besok", 6>>, <<"lusa", 7>> >>

\* A text with an amount and two date expressions, and one with a date
\* expression and no amount.
TwoDateText(a, b) ==
    "Makan 50k " \o SpanTable[a][1] \o " " \o SpanTable[b][1]

TwoDateTexts ==
    {TwoDateText(a, b) : a \in 1..Len(SpanTable), b \in 1..Len(SpanTable)}

DateOnlyText(a) == "Makan " \o SpanTable[a][1]

DateOnlyTexts == {DateOnlyText(a) : a \in 1..Len(SpanTable)}

TransactionTexts ==
    AmountLastTexts \cup ExampleTransactionTexts \cup KeywordTexts
    \cup BareAmountTexts \cup AmountFirstTexts
    \cup InvalidDateTransactionTexts \cup DatedTransactionTexts
    \cup TwoDateTexts \cup DateOnlyTexts

CategoryDescriptions ==
    {"beli bensin di spbu", "random text", "food grab", "Beli makan",
     "makanan enak", "BENSIN", "naik bus ke mall", "bayar listrik dan air",
     "Gaji bulanan", "bonus gaji", "project client", "lainnya", ""}

TransactionTypes == {"income", "expense", "transfer"}

\* ------------------------------------------------------------------
\* The state machine: a client calls the functions, the clock moves on
\* ------------------------------------------------------------------

StartDates == {<<2025, 8, 22>>, <<2024, 12, 28>>, <<2025, 1, 29>>, <<2025, 4, 10>>}

\* type is the second argument of detect_transaction_category.
NoCall == [fn |-> "", arg |-> "", type |-> ""]

\* What a call left in the four result variables.
Results ==
    [amount |-> ret_amount, date |-> ret_date,
     transaction |-> ret_transaction, category |-> ret_category]

NoPrev ==
    [call |-> NoCall,
     results |-> [amount |-> None, date |-> None,
                  transaction |-> NoTransaction, category |-> ""]]

\* The states of the conversation.
WAITING_FOR_AMOUNT == 1
WAITING_FOR_DESCRIPTION == 2
WAITING_FOR_DATE == 3
WAITING_FOR_CONFIRMATION == 5

\* ConversationHandler.END, the state of a user who is in no conversation.
END == 0 - 1

\* context.user_data without any key: a key that is absent reads "" or
\* None.
NoUserData ==
    [transaction_type |-> "", amount |-> None, description |-> "",
     transaction_date |-> None, category |-> ""]

NoUpdate == [kind |-> "", data |-> ""]

\* The bot after its start: no conversation, no draft, no keyboards.
BotInit ==
    /\ state = END
    /\ user_data = NoUserData
    /\ update = NoUpdate
    /\ saves = <<>>
    /\ flows = 0
    /\ date_keyboards = 0
    /\ confirm_keyboards = 0

\* A new spreadsheet: the Transactions sheet holds its header only.
SheetInit ==
    /\ rows = <<>>
    /\ summary = <<>>
    /\ total = 0
    /\ ret_balance = None

\* No call of the parser is under way.
ParserInit ==
    /\ pc = "idle"
    /\ call = NoCall
    /\ ret_amount = None
    /\ ret_date = None
    /\ ret_transaction = NoTransaction
    /\ ret_category = ""
    /\ remaining_text = ""
    /\ prev = NoPrev

Init ==
    /\ clock \in StartDates
    /\ BotInit
    /\ SheetInit
    /\ pc = "idle"
    /\ call = NoCall
    /\ ret_amount = None
    /\ ret_date = None
    /\ ret_transaction = NoTransaction
    /\ ret_category = ""
    /\ remaining_text = ""
    /\ taxonomy = DefaultTaxonomy
    /\ prev = NoPrev

\* A day passes between two calls.
Tick ==
    /\ pc = "idle"
    /\ \E s \in StartDates :
          ToOrdinal(clock) - ToOrdinal(s) \in 0..(MaxTicks - 1)
    /\ clock' = AddDays(clock, 1)
    /\ UNCHANGED <<parserVars, botVars, sheetVars>>

CallParseAmount ==
    /\ pc = "idle"
    /\ \E t \in AmountTexts :
          /\ call' = [fn |-> "parse_amount", arg |-> t, type |-> ""]
          /\ ret_amount' = parse_amount(t)
    /\ pc' = "done"
    /\ UNCHANGED <<clock, ret_date, ret_transaction, ret_category,
                   remaining_text, taxonomy, prev, botVars, sheetVars>>

CallParseDate ==
    /\ pc = "idle"
    /\ \E t \in DateTexts :
          /\ call' = [fn |-> "parse_date_from_text", arg |-> t, type |-> ""]
          /\ ret_date' = parse_date_from_text(t, clock)
    /\ pc' = "done"
    /\ UNCHANGED <<clock, ret_amount, ret_transaction, ret_category,
                   remaining_text, taxonomy, prev, botVars, sheetVars>>

CallParseTransaction ==
    /\ pc = "idle"
    /\ \E t \in TransactionTexts :
          /\ call' = [fn |-> "parse_transaction_text", arg |-> t, type |-> ""]
          /\ ret_transaction' = parse_transaction_text(t, clock)
          /\ remaining_text' = RemainingText(t, clock)
    /\ pc' = "done"
    /\ UNCHANGED <<clock, ret_amount, ret_date, ret_category, taxonomy,
                   prev, botVars, sheetVars>>

CallDetectCategory ==
    /\ pc = "idle"
    /\ \E d \in CategoryDescriptions, t \in TransactionTypes :
          /\ call' = [fn |-> "detect_transaction_category", arg |-> d,
                      type |-> t]
          /\ ret_category' = detect_transaction_category(d, t)
    /\ pc' = "done"
    /\ UNCHANGED <<clock, ret_amount, ret_date, ret_transaction,
                   remaining_text, taxonomy, prev, botVars, sheetVars>>

\* The client takes the result.
Return ==
    /\ pc = "done"
    /\ pc' = "idle"
    /\ call' = NoCall
    /\ ret_amount' = None
    /\ ret_date' = None
    /\ ret_transaction' = NoTransaction
    /\ ret_category' = ""
    /\ remaining_text' = ""
    /\ UNCHANGED <<clock, taxonomy, prev, botVars, sheetVars>>

Next ==
    \/ Tick
    \/ CallParseAmount
    \/ CallParseDate
    \/ CallParseTransaction
    \/ CallDetectCategory
    \/ Return

Spec == Init /\ [][Next]_vars

Returned(fn) == pc = "done" /\ call.fn = fn

\* ------------------------------------------------------------------
\* A client that repeats a call, under any taxonomy
\* ------------------------------------------------------------------

\* A taxonomy with a type without categories and a category without
\* keywords.
SparseTaxonomy ==
    [income |-> <<>>,
     expense |-> << Category("Makanan", <<>>),
                    Category("Transport", <<"bensin", "grab">>),
                    Category("Lainnya", <<>>) >>]

Taxonomies == {DefaultTaxonomy, SparseTaxonomy}

Call(fn, arg, type) == [fn |-> fn, arg |-> arg, type |-> type]

RepeatedCalls ==
    {Call("parse_amount", t, "") : t \in {"150rb", "Rp 50.000", "abc"}}
    \cup {Call("parse_date_from_text", t, "") :
              t \in {"kemarin", "25/12/2024", "tgl 15", "senin", "halo"}}
    \cup {Call("parse_transaction_text", t, "") :
              t \in {"Beli makan 25000", "Bayar listrik 150rb kemarin",
                     "halo apa kabar"}}
    \cup {Call("detect_transaction_category", d, t) :
              d \in {"beli bensin di spbu", "random text", "Beli makan",
                     "gaji bulanan", ""},
              t \in TransactionTypes}

\* The call c made now; the result variables of the other functions are
\* left empty.
Invoke(c) ==
    /\ call' = c
    /\ ret_amount' =
          IF c.fn = "parse_amount" THEN parse_amount(c.arg) ELSE None
    /\ ret_date' =
          IF c.fn = "parse_date_from_text"
          THEN parse_date_from_text(c.arg, clock) ELSE None
    /\ ret_transaction' =
          IF c.fn = "parse_transaction_text"
          THEN parse_transaction_text(c.arg, clock) ELSE NoTransaction
    /\ remaining_text' =
          IF c.fn = "parse_transaction_text"
          THEN RemainingText(c.arg, clock) ELSE ""
    /\ ret_category' =
          IF c.fn = "detect_transaction_category"
          THEN detect_transaction_category(c.arg, c.type) ELSE ""
    /\ pc' = "done"
    /\ UNCHANGED <<clock, taxonomy, botVars, sheetVars>>

InitRepeat ==
    /\ clock \in StartDates
    /\ ParserInit
    /\ taxonomy \in Taxonomies
    /\ BotInit
    /\ SheetInit

\* The client makes a call and remembers it with its results.
FirstCall ==
    /\ pc = "idle"
    /\ prev = NoPrev
    /\ \E c \in RepeatedCalls :
          /\ Invoke(c)
          /\ prev' = [call |-> c, results |-> Results']

\* The client makes the remembered call again.
SecondCall ==
    /\ pc = "idle"
    /\ prev # NoPrev
    /\ Invoke(prev.call)
    /\ UNCHANGED prev

NextRepeat ==
    \/ Tick
    \/ FirstCall
    \/ SecondCall
    \/ Return

SpecRepeat == InitRepeat /\ [][NextRepeat]_vars

\* ------------------------------------------------------------------
\* The bot: the handlers of src/bot/handlers.py
\* ------------------------------------------------------------------

\* str.replace(old, new)
RECURSIVE Replace(_, _, _)
Replace(s, old, new) ==
    IF Len(s) < Len(old) THEN s
    ELSE IF SubSeq(s, 1, Len(old)) = old
    THEN new \o Replace(SubSeq(s, Len(old) + 1, Len(s)), old, new)
    ELSE Ch(s, 1) \o Replace(SubSeq(s, 2, Len(s)), old, new)

StartsWith(s, prefix) ==
    Len(s) >= Len(prefix) /\ SubSeq(s, 1, Len(prefix)) = prefix

\* A handler works on the record b: the conversation state, the draft,
\* the saves and the keyboards, with pressed, the keyboard that the
\* message of the pressed button shows ("" for none), and ret, what the
\* handler returned.  Every call of the Telegram API succeeds.
ReturnsNone == 0
Raises == 0 - 2

\* datetime.now() + timedelta(days=365)
MaxFutureDays == 365

income_command(b) ==
    [b EXCEPT !.user_data.transaction_type = "income",
              !.ret = WAITING_FOR_AMOUNT]

expense_command(b) ==
    [b EXCEPT !.user_data.transaction_type = "expense",
              !.ret = WAITING_FOR_AMOUNT]

process_amount(b, text) ==
    LET Accept(amount) ==
            IF ~Positive(amount)
            THEN [b EXCEPT !.ret = WAITING_FOR_AMOUNT]
            ELSE [b EXCEPT !.user_data.amount = amount,
                           !.ret = WAITING_FOR_DESCRIPTION]
    IN  Accept(parse_amount(text))

\* The reply to an accepted description carries the date keyboard.
process_description(b, text) ==
    LET Accept(description) ==
            IF Len(description) < 3
            THEN [b EXCEPT !.ret = WAITING_FOR_DESCRIPTION]
            ELSE [b EXCEPT !.user_data.description = description,
                           !.date_keyboards = @ + 1,
                           !.ret = WAITING_FOR_DATE]
    IN  Accept(Strip(text))

\* An answer to a button edits the message of the button; an answer to a
\* text is a new message.
show_transaction_confirmation(b, is_callback) ==
    LET Shown(category) ==
            [b EXCEPT !.user_data.category = category,
                      !.pressed = IF is_callback THEN "confirm" ELSE @,
                      !.confirm_keyboards =
                          IF is_callback THEN @ ELSE @ + 1]
    IN  Shown(detect_transaction_category(
                  b.user_data.description,
                  IF b.user_data.transaction_type = "" THEN "expense"
                  ELSE b.user_data.transaction_type))

\* transaction_date > max_future_date
TooFar(transaction_date, now) ==
    ToOrdinal(transaction_date) > ToOrdinal(now) + MaxFutureDays

\* An update of a button has no message: the replies to a rejected date
\* raise AttributeError there.
process_date(b, date_input, is_callback) ==
    LET Reject ==
            [b EXCEPT !.ret = IF is_callback THEN Raises
                              ELSE WAITING_FOR_DATE]
        Dated(transaction_date) ==
            IF transaction_date = None THEN Reject
            ELSE IF TooFar(transaction_date, clock) THEN Reject
            ELSE [show_transaction_confirmation(
                      [b EXCEPT !.user_data.transaction_date =
                                    transaction_date],
                      is_callback)
                    EXCEPT !.ret = WAITING_FOR_CONFIRMATION]
    IN  IF date_input = "" THEN Reject
        ELSE Dated(parse_date_from_text(date_input, clock))

\* One call of sheets_service.add_transaction_with_date with its
\* arguments; a key that user_data lacks is passed as None, written "".
SaveCall(by, transaction_type, amount, description, category, transaction_date) ==
    [by |-> by, transaction_type |-> transaction_type, amount |-> amount,
     description |-> description, category |-> category,
     transaction_date |-> transaction_date]

\* GoogleSheetsService has no method add_transaction_with_date: the call
\* raises AttributeError, the handler reports the failure and does not
\* reach user_data.clear().
save_transaction(b) ==
    [b EXCEPT !.saves =
                  Append(@, SaveCall("save_transaction",
                                     b.user_data.transaction_type,
                                     b.user_data.amount,
                                     b.user_data.description,
                                     b.user_data.category,
                                     IF b.user_data.transaction_date = None
                                     THEN clock
                                     ELSE b.user_data.transaction_date)),
              !.pressed = "",
              !.ret = ReturnsNone]

process_confirmation(b, data) ==
    IF data = "confirm_yes"
    THEN [save_transaction(b) EXCEPT !.ret = END]
    ELSE IF data = "confirm_no"
    THEN [b EXCEPT !.user_data = NoUserData, !.pressed = "", !.ret = END]
    ELSE [b EXCEPT !.ret = END]

\* The texts of the persistent menu.  The emoji of a button is written as
\* one character: "^" money bag, "~" money with wings, "#" chart, "@"
\* banknote, "?" magnifier, "&" robot, "%" books, "!" question mark.
IncomeMenu == {"^ Pemasukan", "^ +"}
ExpenseMenu == {"~ Pengeluaran", "~ -"}
OtherMenu ==
    {"# Laporan", "#", "@ Saldo", "@", "? Cari", "?", "& AI", "&", "% Help",
     "!", "^", "~"}

IsMenuButton(message_text) ==
    Strip(message_text) \in IncomeMenu \cup ExpenseMenu \cup OtherMenu

handle_persistent_menu(b, message_text) ==
    IF Strip(message_text) \in IncomeMenu THEN income_command(b)
    ELSE IF Strip(message_text) \in ExpenseMenu THEN expense_command(b)
    ELSE b

handle_message(b, message_text) ==
    LET Saved(transaction_data) ==
            IF transaction_data = NoTransaction THEN b
            ELSE [b EXCEPT !.saves =
                      Append(@, SaveCall(
                          "handle_message",
                          transaction_data.type,
                          transaction_data.amount,
                          transaction_data.description,
                          detect_transaction_category(
                              transaction_data.description,
                              transaction_data.type),
                          IF transaction_data.date = None THEN clock
                          ELSE transaction_data.date))]
    IN  IF IsMenuButton(message_text)
        THEN handle_persistent_menu(b, message_text)
        ELSE Saved(parse_transaction_text(message_text, clock))

\* The buttons of the keyboards the bot sends carry "date_..." and
\* "confirm_..."; an exception is answered by an edit of the message.
handle_callback(b, data) ==
    LET Caught(r) == IF r.ret = Raises THEN [b EXCEPT !.pressed = ""] ELSE r
    IN  IF StartsWith(data, "date_")
        THEN Caught(process_date(b, Replace(data, "date_", ""), TRUE))
        ELSE IF data \in {"confirm_yes", "confirm_no"}
        THEN process_confirmation(b, data)
        ELSE [b EXCEPT !.pressed = ""]

\* ------------------------------------------------------------------
\* The bot: the dispatch of an update (src/main.py)
\* ------------------------------------------------------------------

Text(t) == [kind |-> "text", data |-> t]
Command(c) == [kind |-> "command", data |-> c]
Callback(d) == [kind |-> "callback", data |-> d]

\* Whether the ConversationHandler takes the update: an entry point
\* outside a conversation, a handler of the state or a fallback inside.
ConversationTakes(b, u) ==
    IF b.state = END
    THEN u \in {Command("/income"), Command("/expense")}
    ELSE \/ u.kind = "text"
            /\ b.state \in {WAITING_FOR_AMOUNT, WAITING_FOR_DESCRIPTION,
                            WAITING_FOR_DATE}
         \/ u.kind = "callback" /\ StartsWith(u.data, "date_")
            /\ b.state = WAITING_FOR_DATE
         \/ u.kind = "callback" /\ StartsWith(u.data, "confirm_")
            /\ b.state = WAITING_FOR_CONFIRMATION
         \/ u \in {Command("/cancel"), Command("/start")}

\* The ConversationHandler runs the handler and keeps the state it
\* returns; None and an exception leave the state as it is.
conv_handler(b, u) ==
    LET Keep(r) ==
            [r EXCEPT !.state = IF r.ret \in {ReturnsNone, Raises}
                                THEN b.state ELSE r.ret]
    IN  IF u = Command("/income") /\ b.state = END
        THEN Keep(income_command(b))
        ELSE IF u = Command("/expense") /\ b.state = END
        THEN Keep(expense_command(b))
        ELSE IF u.kind = "text" /\ b.state = WAITING_FOR_AMOUNT
        THEN Keep(process_amount(b, u.data))
        ELSE IF u.kind = "text" /\ b.state = WAITING_FOR_DESCRIPTION
        THEN Keep(process_description(b, u.data))
        ELSE IF u.kind = "text" /\ b.state = WAITING_FOR_DATE
        THEN Keep(process_date(b, Strip(u.data), FALSE))
        ELSE IF u.kind = "callback" /\ b.state = WAITING_FOR_DATE
        THEN Keep(process_date(b, Replace(u.data, "date_", ""), TRUE))
        ELSE IF u.kind = "callback" /\ b.state = WAITING_FOR_CONFIRMATION
        THEN Keep(process_confirmation(b, u.data))
        ELSE IF u = Command("/cancel")
        THEN [b EXCEPT !.state = END]
        ELSE b

\* Group 0: the ConversationHandler, then the command handlers, which
\* leave the draft alone.
Group0(b, u) == IF ConversationTakes(b, u) THEN conv_handler(b, u) ELSE b

\* Group 1: handle_message for a text that is no command, handle_callback
\* for every button.
Group1(b, u) ==
    IF u.kind = "text" THEN handle_message(b, u.data)
    ELSE IF u.kind = "callback" THEN handle_callback(b, u.data)
    ELSE b

\* Application.process_update: every group gets the update, in the order
\* of the groups.
process_update(b, u) == Group1(Group0(b, u), u)

\* ------------------------------------------------------------------
\* The bot: one user sends updates
\* ------------------------------------------------------------------

MaxFlows == 1

\* What the user types: amounts, descriptions, dates, whole transactions
\* and menu buttons.
TextUpdates ==
    {"150000", "0", "Gaji bulanan", "kemarin", "Makan 50k 25/12/2030",
     "~ Pengeluaran"}

CommandUpdates == {"/income", "/expense", "/cancel"}

\* The buttons the user presses, of the date keyboard and of the
\* confirmation keyboard.
CallbackUpdates == {"date_kemarin", "date_manual", "confirm_yes", "confirm_no"}

\* The keyboard a button belongs to.
KeyboardOf(u) ==
    IF u.kind # "callback" THEN ""
    ELSE IF StartsWith(u.data, "date_") THEN "date"
    ELSE IF StartsWith(u.data, "confirm_") THEN "confirm"
    ELSE ""

\* The record the handlers of an update start from: the message of the
\* pressed button is taken from the count of its keyboard.
Begin(u) ==
    [state |-> state,
     user_data |-> user_data,
     saves |-> <<>>,
     date_keyboards |->
         date_keyboards - (IF KeyboardOf(u) = "date" THEN 1 ELSE 0),
     confirm_keyboards |->
         confirm_keyboards - (IF KeyboardOf(u) = "confirm" THEN 1 ELSE 0),
     pressed |-> KeyboardOf(u),
     ret |-> ReturnsNone]

\* The application handles the update u to the end.
Handle(u) ==
    /\ LET Done(b) ==
               /\ state' = b.state
               /\ user_data' = b.user_data
               /\ saves' = b.saves
               /\ date_keyboards' =
                      b.date_keyboards + (IF b.pressed = "date" THEN 1 ELSE 0)
               /\ confirm_keyboards' =
                      b.confirm_keyboards
                          + (IF b.pressed = "confirm" THEN 1 ELSE 0)
       IN  Done(process_update(Begin(u), u))
    /\ update' = u
    /\ UNCHANGED <<clock, parserVars, sheetVars>>

ReceiveText ==
    \E t \in TextUpdates :
        /\ Handle(Text(t))
        /\ UNCHANGED flows

\* A command that enters the conversation counts as a flow.
ReceiveCommand ==
    \E c \in CommandUpdates :
        /\ (state = END /\ c \in {"/income", "/expense"}) => flows < MaxFlows
        /\ flows' = IF state = END /\ c \in {"/income", "/expense"}
                    THEN flows + 1 ELSE flows
        /\ Handle(Command(c))

\* A button can be pressed while a message of the chat shows it.
ReceiveCallback ==
    \E d \in CallbackUpdates :
        /\ KeyboardOf(Callback(d)) = "date" => date_keyboards > 0
        /\ KeyboardOf(Callback(d)) = "confirm" => confirm_keyboards > 0
        /\ Handle(Callback(d))
        /\ UNCHANGED flows

\* The day of the chat.
BotStartDates == {<<2025, 8, 22>>}

InitBot ==
    /\ clock \in BotStartDates
    /\ ParserInit
    /\ taxonomy = DefaultTaxonomy
    /\ BotInit
    /\ SheetInit

NextBot ==
    \/ ReceiveText
    \/ ReceiveCommand
    \/ ReceiveCallback

SpecBot == InitBot /\ [][NextBot]_vars

\* ------------------------------------------------------------------
\* GoogleSheetsService: add_transaction and get_user_balance
\* ------------------------------------------------------------------

\* The text get_all_values gives for a cell that holds the number n: a
\* sheet shows a number in its automatic format, the negative ones with
\* a minus sign.  The amounts of the model are whole rupiah.
CellText(n) == IF n < 0 THEN "-" \o IntStr(0 - n) ELSE IntStr(n)

RECURSIVE Pow10(_)
Pow10(e) == IF e = 0 THEN 1 ELSE 10 * Pow10(e - 1)

\* The float x in the arithmetic of the service.
Number(x) == IntOf(x[1]) * Pow10(x[2])

\* The balance is read from the Saldo cell of the last row.  Every row
\* of the model has cells that are not empty.
get_user_balance(all_rows) ==
    LET Parsed(balance) == IF balance = None THEN Dec(0, 0) ELSE balance
        Read(balance_str) ==
            IF Strip(balance_str) = "" THEN Dec(0, 0)
            ELSE Parsed(parse_amount(balance_str))
    IN  IF Len(all_rows) = 0 THEN Dec(0, 0)
        ELSE Read(all_rows[Len(all_rows)].balance)

user_id == 1

\* The row add_transaction appends; the clock has no time of day.
add_transaction(all_rows, amount, description, category, transaction_type, now) ==
    LET Row(current_balance) ==
            [date |-> now,
             category |-> category,
             description |-> description,
             income |-> IF transaction_type = "income"
                        THEN CellText(amount) ELSE "",
             expense |-> IF transaction_type = "income"
                         THEN "" ELSE CellText(amount),
             balance |-> IF transaction_type = "income"
                         THEN CellText(current_balance + amount)
                         ELSE CellText(current_balance - amount),
             user_id |-> CellText(user_id)]
    IN  Append(all_rows, Row(Number(get_user_balance(all_rows))))

\* parse_amount(...) or 0
OrZero(x) == IF x = None THEN 0 ELSE Number(x)

SummaryRow(period_key, income, expense) ==
    [period |-> period_key,
     income |-> CellText(income),
     expense |-> CellText(expense),
     balance |-> CellText(income - expense),
     user_id |-> CellText(user_id)]

\* The row of the month of date gets the amount added, a month without a
\* row gets a new one.
update_monthly_summary(all_rows, amount, transaction_type, date) ==
    LET period_key == <<date[1], date[2]>>
        income == IF transaction_type = "income" THEN amount ELSE 0
        expense == IF transaction_type = "income" THEN 0 ELSE amount
        Existing == {i \in 1..Len(all_rows) : all_rows[i].period = period_key}
        Updated(i, current_income, current_expense) ==
            [all_rows EXCEPT
                ![i] = SummaryRow(period_key, current_income + income,
                                  current_expense + expense)]
        First(i) ==
            Updated(i, OrZero(parse_amount(all_rows[i].income)),
                    OrZero(parse_amount(all_rows[i].expense)))
    IN  IF Existing = {}
        THEN Append(all_rows, SummaryRow(period_key, income, expense))
        ELSE First(CHOOSE i \in Existing : \A j \in Existing : i <= j)

\* ------------------------------------------------------------------
\* The sheet: a client adds transactions and reads the balance
\* ------------------------------------------------------------------

MaxRows == 3

\* The transactions the client adds: <<amount, description, category,
\* type>>.
SheetTransactions ==
    { <<20000, "Gaji", "Gaji", "income">>,
      <<5000, "Makan", "Makanan", "expense">>,
      <<150000, "Belanja", "Belanja", "expense">> }

\* One call of add_transaction that succeeds; the balance the client read
\* before is out of date.
AddTransaction ==
    /\ Len(rows) < MaxRows
    /\ \E t \in SheetTransactions :
          /\ rows' = add_transaction(rows, t[1], t[2], t[3], t[4], clock)
          /\ summary' = update_monthly_summary(summary, t[1], t[4], clock)
          /\ total' = IF t[4] = "income" THEN total + t[1] ELSE total - t[1]
    /\ ret_balance' = None
    /\ UNCHANGED <<clock, parserVars, botVars>>

GetBalance ==
    /\ ret_balance' = get_user_balance(rows)
    /\ UNCHANGED <<clock, parserVars, botVars, rows, summary, total>>

InitSheet ==
    /\ clock \in StartDates
    /\ ParserInit
    /\ taxonomy = DefaultTaxonomy
    /\ BotInit
    /\ SheetInit

NextSheet ==
    \/ AddTransaction
    \/ GetBalance

SpecSheet == InitSheet /\ [][NextSheet]_vars

\* ------------------------------------------------------------------
\* Properties
\* ------------------------------------------------------------------

HasDigit(t) == \E i \in 1..Len(t) : Ch(t, i) \in Digit

Transaction(type, amount, description, date) ==
    [type |-> type, amount |-> amount, description |-> description,
     date |-> date]

\* C1: parse_transaction_text returns either no result or a result whose
\* amount is present and greater than 0; a text without a parsable amount
\* ("halo apa kabar", any text without a digit) gives no result.
C1_AmountPresentAndPositive ==
    Returned("parse_transaction_text") =>
        /\ \/ ret_transaction = NoTransaction
           \/ (ret_transaction.amount # None /\ ret_transaction.amount[1] # "0")
        /\ (call.arg = "halo apa kabar" \/ ~HasDigit(call.arg))
              => ret_transaction = NoTransaction

C1_Witness ==
    /\ Returned("parse_transaction_text")
    /\ call.arg = "Gaji 0"
    /\ ret_transaction = NoTransaction

\* C2: "Ngopi 15rb tanggal 22/08/2025" gives expense, 15000, "Ngopi",
\* 2025-08-22 and "Bayar listrik 150rb kemarin" gives 150000,
\* "Bayar listrik" and yesterday's date.
C2_SuffixedAmountAndDate ==
    Returned("parse_transaction_text") =>
        /\ call.arg = "Ngopi 15rb tanggal 22/08/2025"
              => ret_transaction = Transaction("expense", Dec(15000, 0), "Ngopi",
                                   <<2025, 8, 22>>)
        /\ call.arg = "Bayar listrik 150rb kemarin"
              => ret_transaction = Transaction("expense", Dec(150000, 0), "Bayar listrik",
                                   AddDays(clock, 0 - 1))

\* C3: for a message that is a description followed by an amount, without
\* a date, the result has the amount, the description and no date.
C3_AmountLast ==
    Returned("parse_transaction_text") =>
        \A d \in 1..Len(DescriptionTable), a \in 1..Len(TrailingAmountTable) :
            (call.arg = AmountLastText(d, a)
                => ret_transaction = Transaction(DescriptionTable[d][2],
                                     Dec(TrailingAmountTable[a][2],
                                         TrailingAmountTable[a][3]),
                                     DescriptionTable[d][1], None))

\* C4: parse_amount of a base number followed, with optional whitespace,
\* by a magnitude suffix is the base times the multiplier of the suffix.
C4_SuffixMultiplies ==
    Returned("parse_amount") =>
        \A b \in 1..Len(BaseTable), w \in {"", " "}, k \in 1..Len(SuffixTable) :
            (call.arg = SuffixedText(b, w, k)
                => ret_amount = Dec(BaseTable[b][2],
                             BaseTable[b][3] + SuffixTable[k][2]))

OneSeparatorKind(t) == ~(HasChar(t, ".") /\ HasChar(t, ","))

\* C5: parse_amount of digits grouped in blocks of three by one kind of
\* separator, without a fraction, is the integer of the digits alone.
C5_GroupedInteger ==
    Returned("parse_amount") =>
        ((/\ call.arg \in GroupedTexts \cup {"150.000", "150,000"}
          /\ OneSeparatorKind(call.arg))
            => ret_amount = Norm(RemoveChars(call.arg, Seps), 0))

LastSep(t) ==
    CHOOSE i \in 1..Len(t) :
        Ch(t, i) \in Seps /\ \A j \in (i + 1)..Len(t) : Ch(t, j) \notin Seps

CountChar(t, c) == Cardinality({i \in 1..Len(t) : Ch(t, i) = c})

\* The number read with the last separator as the decimal point and every
\* other separator dropped.
LastSepDecimal(t) ==
    Norm(RemoveChars(t, Seps), 0 - (Len(t) - LastSep(t)))

\* C6: for a plain number with both '.' and ',', the rightmost separator
\* is the decimal separator and every occurrence of the other one is
\* dropped; a text in which the decimal separator occurs twice is no
\* number and has no value.
C6_RightmostIsDecimal ==
    Returned("parse_amount") =>
        ((/\ call.arg \in PlainTexts
          /\ HasChar(call.arg, ".")
          /\ HasChar(call.arg, ","))
            => ret_amount = IF CountChar(call.arg, Ch(call.arg, LastSep(call.arg))) = 1
                     THEN LastSepDecimal(call.arg)
                     ELSE None)

C6_Witness ==
    /\ Returned("parse_amount")
    /\ call.arg = "1,234.56"
    /\ ret_amount = Dec(123456, 0 - 2)

\* C7: for a plain number with ',' only, a comma followed by exactly one
\* or two digits at the end is the decimal separator and every other comma
\* is dropped: "1,5" is 1.5, "1,234" is 1234, "1,234,56" is 1234.56.
C7_CommaOnly ==
    Returned("parse_amount") =>
        ((/\ call.arg \in PlainTexts
          /\ HasChar(call.arg, ",")
          /\ ~HasChar(call.arg, "."))
            => ret_amount = IF Len(call.arg) - LastSep(call.arg) \in {1, 2}
                     THEN LastSepDecimal(call.arg)
                     ELSE Norm(RemoveChars(call.arg, Seps), 0))

\* The day after a date, written out on the calendar.
NextDay(dt) ==
    IF dt[3] < DaysInMonth(dt[1], dt[2]) THEN <<dt[1], dt[2], dt[3] + 1>>
    ELSE IF dt[2] < 12 THEN <<dt[1], dt[2] + 1, 1>>
    ELSE <<dt[1] + 1, 1, 1>>

\* C8: with the clock at 2025-08-22, parse_date_from_text gives 2025-08-21
\* for "kemarin", 2025-08-23 for "besok", 2025-08-25 for "senin",
\* 2024-12-25 for "25/12/2024" and 2025-09-15 for "tgl 15"; on every day
\* "hari ini"/"today"/"sekarang" is the day of the clock, "kemarin"/
\* "yesterday" the day before, "besok"/"tomorrow" the day after and "lusa"
\* two days after.
C8_DateExamples ==
    Returned("parse_date_from_text") =>
        /\ clock = <<2025, 8, 22>> =>
              /\ call.arg = "kemarin" => ret_date = <<2025, 8, 21>>
              /\ call.arg = "besok" => ret_date = <<2025, 8, 23>>
              /\ call.arg = "senin" => ret_date = <<2025, 8, 25>>
              /\ call.arg = "tgl 15" => ret_date = <<2025, 9, 15>>
        /\ call.arg = "25/12/2024" => ret_date = <<2024, 12, 25>>
        /\ call.arg \in {"hari ini", "today", "sekarang"} => ret_date = clock
        /\ call.arg \in {"kemarin", "yesterday"} =>
              ret_date # None /\ NextDay(ret_date) = clock
        /\ call.arg \in {"besok", "tomorrow"} => ret_date = NextDay(clock)
        /\ call.arg = "lusa" => ret_date = NextDay(NextDay(clock))

C8_Witness ==
    /\ Returned("parse_date_from_text")
    /\ clock = <<2024, 12, 31>>
    /\ call.arg = "besok"
    /\ ret_date = <<2025, 1, 1>>

DayNumOf(name) ==
    days_map[CHOOSE k \in 1..Len(days_map) : days_map[k][1] = name][2]

\* C9 as claimed: a weekday name is the next occurrence of that weekday at
\* or after the day of the clock, (target - weekday of the clock) mod 7
\* days ahead, the day of the clock itself when it is that weekday.
C9_WeekdayAtOrAfter ==
    Returned("parse_date_from_text") =>
        (call.arg \in WeekdayNames
            => ret_date = AddDays(clock, (DayNumOf(call.arg) - Weekday(clock)) % 7))

\* C9 as amended: a weekday name is the next occurrence of that weekday
\* strictly after the day of the clock, 1 to 7 days ahead; on 2025-08-22,
\* a Friday, "jumat" and "friday" are 2025-08-29.
C9_WeekdayStrictlyAfter ==
    Returned("parse_date_from_text") =>
        /\ call.arg \in WeekdayNames =>
              /\ ret_date # None
              /\ Weekday(ret_date) = DayNumOf(call.arg)
              /\ ToOrdinal(ret_date) - ToOrdinal(clock) \in 1..7
        /\ (clock = <<2025, 8, 22>> /\ call.arg \in {"jumat", "friday"})
              => ret_date = <<2025, 8, 29>>

C9_Witness ==
    /\ Returned("parse_date_from_text")
    /\ clock = <<2025, 8, 22>>
    /\ call.arg = "jumat"
    /\ ret_date = <<2025, 8, 29>>

\* C10: "seminggu lalu" is the day of the clock minus 7 days and
\* "<N> minggu lalu" the day of the clock minus 7 * N days.
C10_WeeksAgo ==
    Returned("parse_date_from_text") =>
        /\ call.arg = "seminggu lalu" => ret_date = AddDays(clock, 0 - 7)
        /\ \A n \in 1..MaxWeeks :
              call.arg = WeeksAgoText(n) => ret_date = AddDays(clock, 0 - 7 * n)

\* The date n days before a date, counted back on the calendar one month
\* end at a time.
RECURSIVE DaysBefore(_, _)
DaysBefore(dt, n) ==
    IF n < dt[3] THEN <<dt[1], dt[2], dt[3] - n>>
    ELSE DaysBefore(IF dt[2] > 1
                    THEN <<dt[1], dt[2] - 1, DaysInMonth(dt[1], dt[2] - 1)>>
                    ELSE <<dt[1] - 1, 12, 31>>,
                    n - dt[3])

\* C11: on every day of the clock and for every N >= 0, "<N> hari lalu"
\* and "<N> hari yang lalu" are the day of the clock minus N days and
\* "<N> bulan lalu" is the day of the clock minus 30 * N days.
C11_DaysAndMonthsAgo ==
    Returned("parse_date_from_text") =>
        \A n \in 0..MaxAgo :
            /\ call.arg \in {DaysAgoText(n), DaysAgoYangText(n)}
                  => ret_date = DaysBefore(clock, n)
            /\ call.arg = MonthsAgoText(n)
                  => ret_date = DaysBefore(clock, 30 * n)

C11_Witness ==
    /\ Returned("parse_date_from_text")
    /\ clock = <<2025, 1, 29>>
    /\ call.arg = "2 bulan lalu"
    /\ ret_date = <<2024, 11, 30>>

\* C12: a day with a month name and no year is that day and month of the
\* year of the clock, or of the next year when that date is before the
\* day of the clock; the result is never before the day of the clock.
C12_MonthNameRollsForward ==
    Returned("parse_date_from_text") =>
        \A k \in 1..Len(MonthDayTable) :
            (call.arg = MonthDayTable[k][1]
                => /\ ret_date =
                        IF Before(<<clock[1], MonthDayTable[k][2],
                                    MonthDayTable[k][3]>>, clock)
                        THEN <<clock[1] + 1, MonthDayTable[k][2],
                               MonthDayTable[k][3]>>
                        ELSE <<clock[1], MonthDayTable[k][2],
                               MonthDayTable[k][3]>>
                   /\ ~Before(ret_date, clock))

\* The month after a month <<year, month>>, and day n of a month.
NextMonth(ym) == IF ym[2] = 12 THEN <<ym[1] + 1, 1>> ELSE <<ym[1], ym[2] + 1>>
DayIn(ym, n) == <<ym[1], ym[2], n>>
ExistsIn(ym, n) == n <= DaysInMonth(ym[1], ym[2])
MonthOfClock == <<clock[1], clock[2]>>

\* C13: for every N that is a day of the month of the clock, "tgl N" and
\* "tanggal N" are day N of that month when it is not before the day of
\* the clock and day N of the following month otherwise, January of the
\* next year after December; the result is never before the day of the
\* clock.
C13_ShortcutDayRolls ==
    Returned("parse_date_from_text") =>
        \A w \in ShortcutWords, n \in 1..31 :
            ((call.arg = ShortcutText(w, n) /\ ExistsIn(MonthOfClock, n))
                => /\ ret_date = IF n >= clock[3]
                                 THEN DayIn(MonthOfClock, n)
                                 ELSE DayIn(NextMonth(MonthOfClock), n)
                   /\ ~Before(ret_date, clock))

\* The month "tgl N" resolves to: the month of the clock, or the next one
\* when day N of the month of the clock is past.
ResolvedMonth(n) ==
    IF ExistsIn(MonthOfClock, n) /\ n < clock[3]
    THEN NextMonth(MonthOfClock)
    ELSE MonthOfClock

\* C14: for every N in 1..31, when the month "tgl N" resolves to has no
\* day N, the result is day N of the month after it, so that "tgl N"
\* always has a value with day of month N: "tgl 31" on 10 April is 31 May
\* and "tgl 30" on 31 January is 30 March.
C14_ShortcutDayRetries ==
    Returned("parse_date_from_text") =>
        \A w \in ShortcutWords, n \in 1..31 :
            (call.arg = ShortcutText(w, n)
                => ret_date = IF ExistsIn(ResolvedMonth(n), n)
                              THEN DayIn(ResolvedMonth(n), n)
                              ELSE DayIn(NextMonth(ResolvedMonth(n)), n))

\* C15: a numeric date literal that denotes no calendar date ("31/02/2025",
\* "15/13/2025") has no value in parse_date_from_text, and a transaction
\* text holding it gets no date from it.
C15_InvalidDateNotFound ==
    /\ Returned("parse_date_from_text") =>
          (call.arg \in InvalidDateTexts => ret_date = None)
    /\ Returned("parse_transaction_text") =>
          (call.arg \in InvalidDateTransactionTexts
              => ret_transaction.date = None)

\* C16: parse_date_from_text has no value for a text that holds none of
\* the date forms; a bare number without "tgl" or "tanggal" before it
\* ("15", "beli 5 apel") has no value.
C16_NoDateFormNoValue ==
    Returned("parse_date_from_text") =>
        (call.arg \in NoDateTexts => ret_date = None)

HasKeyword(t, keywords) ==
    \E k \in 1..Len(keywords) : Contains(Lower(t), keywords[k])

\* C17: for every result of parse_transaction_text the type is income
\* exactly when a keyword of income_keywords occurs in the lower-cased
\* original text or in the lower-cased text left after the date and the
\* amount are removed, and expense otherwise; an expense keyword in the
\* text changes nothing.
C17_IncomeIffKeyword ==
    (Returned("parse_transaction_text") /\ ret_transaction # NoTransaction) =>
        /\ ret_transaction.type \in {"income", "expense"}
        /\ ret_transaction.type = "income" <=>
              \/ HasKeyword(Strip(call.arg), income_keywords)
              \/ HasKeyword(remaining_text, income_keywords)
        /\ (HasKeyword(call.arg, expense_keywords)
               /\ HasKeyword(call.arg, income_keywords))
              => ret_transaction.type = "income"

C17_Witness ==
    /\ Returned("parse_transaction_text")
    /\ call.arg = "project 5000 fee"
    /\ remaining_text = "project fee"
    /\ ret_transaction.type = "income"

\* Nothing is left of a text once the filler words are taken out.
NothingLeft(t) == CollapseSpaces(SubIgnoreCase(connecting_words, "", t)) = ""

\* C18: the description of every result of parse_transaction_text is not
\* empty and its first character is in upper case; when nothing is left
\* after the date span, the amount span and the filler words are removed,
\* it is "Transaksi" for an expense and "Pemasukan" for an income.
C18_DescriptionPlaceholder ==
    (Returned("parse_transaction_text") /\ ret_transaction # NoTransaction) =>
        /\ ret_transaction.description # ""
        /\ Ch(ret_transaction.description, 1)
              = UpperCh(Ch(ret_transaction.description, 1))
        /\ NothingLeft(remaining_text) =>
              ret_transaction.description =
                  IF ret_transaction.type = "expense" THEN "Transaksi"
                  ELSE "Pemasukan"

C18_Witness ==
    /\ Returned("parse_transaction_text")
    /\ call.arg = "untuk 5000"
    /\ remaining_text = "untuk"
    /\ ret_transaction.description = "Transaksi"

\* C19: for a message that is an amount followed by a description, the
\* result has the amount, and the description with every word intact:
\* "25000 Beli makan" is 25000 and "Beli makan", "150rb Bayar listrik" is
\* 150000 and "Bayar listrik", "2jt Bonus project" is 2000000 and
\* "Bonus project".
C19_AmountFirst ==
    Returned("parse_transaction_text") =>
        \A a \in 1..Len(LeadingAmountTable), d \in 1..Len(FollowingDescriptions) :
            (call.arg = AmountFirstText(a, d)
                => /\ ret_transaction # NoTransaction
                   /\ ret_transaction.amount =
                         Dec(LeadingAmountTable[a][2], LeadingAmountTable[a][3])
                   /\ ret_transaction.description = FollowingDescriptions[d])

\* The score of a category for a description: for every keyword that
\* occurs in the lower-cased description twice its length, and 5 more
\* when it also occurs as a whole word between spaces.
Words(t) ==
    {SubSeq(t, i, j) : i \in 1..Len(t), j \in 1..Len(t)} \ {""}

IsWordOf(w, t) ==
    \E i \in 1..Len(t), j \in 1..Len(t) :
        /\ SubSeq(t, i, j) = w
        /\ (i = 1 \/ Ch(t, i - 1) = " ")
        /\ (j = Len(t) \/ Ch(t, j + 1) = " ")

ScoreOf(category, description) ==
    LET kws == category.keywords
        Points(k) ==
            IF kws[k] \in Words(Lower(description))
            THEN 2 * Len(kws[k])
                 + (IF IsWordOf(kws[k], Lower(description)) THEN 5 ELSE 0)
            ELSE 0
        RECURSIVE Sum(_)
        Sum(k) == IF k = 0 THEN 0 ELSE Sum(k - 1) + Points(k)
    IN  Sum(Len(kws))

\* The first category of the list with the highest score.
FirstHighest(categories, description) ==
    categories[CHOOSE k \in 1..Len(categories) :
        /\ \A j \in 1..Len(categories) :
              ScoreOf(categories[j], description)
                  <= ScoreOf(categories[k], description)
        /\ \A j \in 1..(k - 1) :
              ScoreOf(categories[j], description)
                  < ScoreOf(categories[k], description)].name

\* C20 as claimed: for every description and type the result is the
\* category of the type with the highest score, the first of the list
\* among equal top scores.
C20_HighestScoreFirst ==
    (Returned("detect_transaction_category")
       /\ Len(DEFAULT_CATEGORIES(call.type)) > 0) =>
        ret_category = FirstHighest(DEFAULT_CATEGORIES(call.type), call.arg)

\* C20 as amended: when a category of the type has a score above 0, the
\* result is the category of the type with the highest score, the first
\* of the list among equal top scores; "beli bensin di spbu" as an
\* expense is "Transport".
C20_HighestPositiveScoreFirst ==
    Returned("detect_transaction_category") =>
        /\ (\E k \in 1..Len(DEFAULT_CATEGORIES(call.type)) :
                ScoreOf(DEFAULT_CATEGORIES(call.type)[k], call.arg) > 0)
              => ret_category
                    = FirstHighest(DEFAULT_CATEGORIES(call.type), call.arg)
        /\ (call.arg = "beli bensin di spbu" /\ call.type = "expense")
              => ret_category = "Transport"

C20_Witness ==
    /\ Returned("detect_transaction_category")
    /\ call.arg = "food grab"
    /\ call.type = "expense"
    /\ ScoreOf(DEFAULT_CATEGORIES("expense")[1], call.arg) = 13
    /\ ScoreOf(DEFAULT_CATEGORIES("expense")[2], call.arg) = 13
    /\ ret_category = "Makanan"

\* The categories the taxonomy in force holds for a type.
CategoriesOf(type) ==
    IF type \in DOMAIN taxonomy THEN taxonomy[type] ELSE <<>>

NothingScores ==
    \A k \in 1..Len(CategoriesOf(call.type)) :
        ScoreOf(CategoriesOf(call.type)[k], call.arg) = 0

\* C21: detect_transaction_category always returns a category name, and
\* it returns "Lainnya" whenever every category of the type scores 0:
\* when no keyword matches, when the type has no categories and when a
\* category has no keywords.
C21_FallbackWhenNothingScores ==
    Returned("detect_transaction_category") =>
        /\ ret_category \in
              {"Lainnya"} \cup {CategoriesOf(call.type)[k].name :
                                   k \in 1..Len(CategoriesOf(call.type))}
        /\ NothingScores => ret_category = "Lainnya"
        /\ call.arg = "random text" => ret_category = "Lainnya"
        /\ CategoriesOf(call.type) = <<>> => ret_category = "Lainnya"

C21_Witness ==
    /\ Returned("detect_transaction_category")
    /\ taxonomy = SparseTaxonomy
    /\ call.arg = "Beli makan"
    /\ call.type = "expense"
    /\ CategoriesOf("expense")[1].keywords = <<>>
    /\ NothingScores
    /\ ret_category = "Lainnya"

\* C22: a call with the arguments of a remembered call returns what the
\* remembered call returned, whatever happened between the two.
C22_SameArgumentsSameResults ==
    (pc = "done" /\ call = prev.call) => Results = prev.results

\* C23: parse_amount returns a number for every text that holds a digit,
\* also for a literal an earlier rule matched and could not convert
\* ("1.234.567"), and no value for a text without a digit and for the
\* empty text.
C23_NumberIffDigit ==
    Returned("parse_amount") =>
        /\ HasDigit(call.arg) <=> ret_amount # None
        /\ call.arg = "1.234.567" => ret_amount # None
        /\ call.arg = "" => ret_amount = None

\* C24: the currency token changes nothing: "Rp " + a and "Rp" + a parse
\* as a does; "Rp 150,000" is 150000 and "Rp 15rb" is 15000.
C24_CurrencyTokenChangesNothing ==
    Returned("parse_amount") =>
        /\ \A a \in CurrencyBases :
              call.arg \in {"Rp " \o a, "Rp" \o a}
                  => ret_amount = parse_amount(a)
        /\ call.arg = "Rp 150,000" => ret_amount = Dec(150000, 0)
        /\ call.arg = "Rp 15rb" => ret_amount = Dec(15000, 0)

\* C26: the date parse_transaction_text attaches for a date span is the
\* date parse_date_from_text returns for the whole span under the same
\* clock: N days back for "<N> hari lalu", 7 * N days back for
\* "<N> minggu lalu", the date of "tgl <N>" for "tgl <N>".
C26_DateOfWholeSpan ==
    Returned("parse_transaction_text") =>
        \A span \in DateSpans :
            call.arg = DatedTransaction(span) =>
                /\ ret_transaction.date = parse_date_from_text(span, clock)
                /\ \A n \in 1..MaxAgo :
                       span = DaysAgoText(n)
                           => ret_transaction.date = DaysBefore(clock, n)
                /\ \A n \in 1..MaxWeeks :
                       span = WeeksAgoText(n)
                           => ret_transaction.date = DaysBefore(clock, 7 * n)

\* The date expression of SpanTable that the date loop takes out of a text
\* holding a and then b: of those that parse, the one of the earliest
\* pattern, the left one for two of the same pattern; 0 when none parses.
Parses(a) == parse_date_from_text(SpanTable[a][1], clock) # None

TakenSpan(a, b) ==
    IF Parses(a) /\ (~Parses(b) \/ SpanTable[a][2] <= SpanTable[b][2]) THEN a
    ELSE IF Parses(b) THEN b
    ELSE 0

\* What is left of "Makan <a> <b>" without the expression t.
LeftSpans(a, b, t) ==
    IF t = 0 THEN SpanTable[a][1] \o " " \o SpanTable[b][1]
    ELSE IF t = a THEN SpanTable[b][1]
    ELSE SpanTable[a][1]

\* C27: parse_transaction_text removes at most one date span, before it
\* scans for the amount: of several date expressions the one of the
\* earliest pattern is used wherever it stands, the leftmost that parses
\* within a pattern, the others stay in the text, and the digits of the
\* removed span are never the amount.
C27_OneDateSpanBeforeAmount ==
    Returned("parse_transaction_text") =>
        /\ \A a, b \in 1..Len(SpanTable) :
               call.arg = TwoDateText(a, b) =>
                   \A t \in {TakenSpan(a, b)} :
                       /\ ret_transaction.amount = Dec(50000, 0)
                       /\ ret_transaction.date =
                              IF t = 0 THEN None
                              ELSE parse_date_from_text(SpanTable[t][1], clock)
                       /\ ret_transaction.description
                              = "Makan " \o LeftSpans(a, b, t)
        /\ \A a \in 1..Len(SpanTable) :
               (call.arg = DateOnlyText(a) /\ Parses(a))
                   => ret_transaction = NoTransaction

\* "Makan 50k kemarin 20/08/2025": the later expression is the one of the
\* earlier pattern, and "kemarin" stays.
C27_Witness ==
    /\ Returned("parse_transaction_text")
    /\ call.arg = TwoDateText(4, 1)
    /\ ret_transaction.date = <<2025, 8, 20>>
    /\ ret_transaction.description = "Makan kemarin"

\* ------------------------------------------------------------------
\* Properties of the bot
\* ------------------------------------------------------------------

\* The date the free text of the handled update carries, None without one.
ParsedDateOf(u) ==
    LET DateOf(transaction_data) ==
            IF transaction_data = NoTransaction THEN None
            ELSE transaction_data.date
    IN  DateOf(parse_transaction_text(u.data, clock))

\* C25: no save is attempted for a transaction dated more than 365 days
\* after now, neither by the guided flow nor by a free text, and a free
\* text without a date is saved with the date of now.
C25_NoSaveBeyondCeiling ==
    \A i \in 1..Len(saves) :
        /\ ~TooFar(saves[i].transaction_date, clock)
        /\ (saves[i].by = "handle_message" /\ ParsedDateOf(update) = None)
               => saves[i].transaction_date = clock

\* The draft holds every field of a transaction.
CompleteDraft(draft) ==
    /\ draft.transaction_type \in {"income", "expense"}
    /\ Positive(draft.amount)
    /\ Len(draft.description) >= 3
    /\ draft.transaction_date # None

\* The conversation rejects the text u in the state it is in.
Rejected(u) ==
    /\ u.kind = "text"
    /\ \/ state = WAITING_FOR_AMOUNT /\ ~Positive(parse_amount(u.data))
       \/ state = WAITING_FOR_DESCRIPTION /\ Len(Strip(u.data)) < 3
       \/ /\ state = WAITING_FOR_DATE
          /\ LET Bad(transaction_date) ==
                     \/ transaction_date = None
                     \/ TooFar(transaction_date, clock)
             IN  Bad(parse_date_from_text(Strip(u.data), clock))

\* C28: whenever save_transaction is invoked the draft holds a type, an
\* amount above 0, a description of at least 3 characters and a date, by
\* whatever button the save was reached.
C28_SaveOnlyCompleteDraft ==
    (\E i \in 1..Len(saves) : saves[i].by = "save_transaction")
        => CompleteDraft(user_data)

\* C28, second part: a rejected input leaves the conversation in the same
\* state with the draft unchanged.
C28_RejectedInputChangesNothing ==
    [][Rejected(update') => (state' = state /\ user_data' = user_data)]_vars

\* C29: an update causes at most one save attempt, and a text that a state
\* of the conversation consumes is not saved by handle_message as well.
C29_OneSavePerUpdate ==
    [][/\ Len(saves') <= 1
       /\ (update'.kind = "text" /\ ConversationTakes(Begin(update'), update'))
              => \A i \in 1..Len(saves') : saves'[i].by # "handle_message"]_vars

\* ------------------------------------------------------------------
\* Properties of the sheet
\* ------------------------------------------------------------------

\* C30: after any sequence of successful add_transaction calls from an
\* empty sheet get_user_balance returns the income minus the expenses,
\* also when that is negative.
C30_BalanceIsIncomeMinusExpense ==
    ret_balance # None =>
        /\ total >= 0
        /\ ret_balance = Dec(total, 0)

============================================================================
